---- MODULE Spec2Model ----
(***************************************************************************)
(* A model of the wasmtime C++ binding (include/wasmtime.hh): the handle   *)
(* owning wrapper classes, the Result / TrapResult tagged results, the     *)
(* Extern and Val tagged unions and the ValKind conversions.               *)
(*                                                                         *)
(* The wrapped engine (the C API of wasmtime.h) is the environment: every  *)
(* value an engine call hands back (a fresh handle, an error pointer, a    *)
(* trap pointer, a message) is drawn nondeterministically from small sets. *)
(***************************************************************************)
EXTENDS Integers, Sequences, FiniteSets, TLC

(***************************************************************************)
(* Bounds of the model.                                                    *)
(***************************************************************************)
MaxHandles == 3
MaxWrappers == 3
MaxCtx == 2

NULL == 0

VARIABLES
  cls,       \* the wrapper class the behaviour exercises
  wrappers,  \* the C++ objects: [alive, ptr, ref]
  hstate,    \* the engine's view of every handle
  dels,      \* how often a handle was passed to its delete function
  nullDels,  \* how often a delete function was called with nullptr
  ctxs,      \* the Store::Context views in scope (the store handle each views)
  op,        \* the operation that produced the current state
  rcall,     \* the fallible wrapper operation that was called
  eng,       \* what the engine call handed back: its error and its trap
  result,    \* the Result / TrapResult the wrapper returned: std::variant
  madeFrom,  \* whether the Result was built from a success or from an error
  probe,     \* what operator bool / ok() / err() yielded
  rpc,       \* "idle", "returned", or "aborted" once the program has ended
  imports,   \* the std::vector<Extern> given to Instance::create
  module,    \* the module instantiated: the imports it needs, its start
  handed,    \* the wasmtime_extern_t array handed to the engine
  inst,      \* what Instance::create returned
  raw,       \* the wasmtime_extern_t given to Instance::cvt
  ext,       \* the Extern made of raw
  back,      \* the wasmtime_extern_t made of ext
  vin,       \* the C++ value a ValType or a Val was constructed from
  val,       \* the wasmtime_val_t inside the Val: its kind and its union
  vout,      \* what kind() or an accessor of the Val / ValType yielded
  fcall,     \* the Func called last: its type, its arguments, what came back
  trp,       \* the Trap made of a message and what its accessors yielded
  wat,       \* the wat2wasm call made last: its text, the engine's buffer
  lim,       \* the Limits constructed last and what min() / max() yielded
  ftype,     \* the FuncType constructed last: the lists, the handles
  fuel,      \* the store's fuel counters and what the Context calls yielded
  glob,      \* the Global created last, the engine's cell, the results
  tab,       \* the Table created last, the engine's elements, the results
  mem,       \* the Memory created last, the engine's pages, the results
  xpc        \* "run", or "aborted" once std::abort() was called

ownVars == <<cls, wrappers, hstate, dels, nullDels, ctxs>>
resVars == <<rcall, eng, result, madeFrom, probe, rpc>>
extVars == <<imports, module, handed, inst, raw, ext, back>>
valVars == <<vin, val, vout>>
objVars == <<fcall, trp, wat, lim, ftype, fuel, glob, tab, mem>>
vars == <<op, ownVars, resVars, extVars, valVars, objVars, xpc>>

notOwn == <<resVars, extVars, valVars, objVars, xpc>>
notRes == <<ownVars, extVars, valVars, objVars, xpc>>
notExt == <<ownVars, resVars, valVars, objVars>>
notVal == <<ownVars, resVars, extVars, objVars>>
oldVars == <<ownVars, resVars, extVars, valVars>>

(***************************************************************************)
(* The values a part of the state has while a specification does not use   *)
(* that part.                                                              *)
(***************************************************************************)
NoEng == [null |-> TRUE, msg |-> <<>>, trapnull |-> TRUE, tmsg |-> <<>>]
NoData == [index |-> 0, val |-> [alt |-> "none", v |-> "none", msg |-> <<>>]]
NoProbe == [acc |-> "none", tag |-> "none",
            val |-> [alt |-> "none", v |-> "none", msg |-> <<>>]]

OwnIdle ==
  /\ cls = "none"
  /\ wrappers = <<>>
  /\ hstate = <<>>
  /\ dels = <<>>
  /\ nullDels = 0
  /\ ctxs = <<>>

NoRaw == [kind |-> "none", of |-> NULL]
NoExtern == [alt |-> "none", payload |-> NULL]
NoModule == [need |-> <<>>, startTraps |-> FALSE]
NoVal == [kind |-> "none", w0 |-> 0, w1 |-> 0, w23 |-> 0]
NoIn == [type |-> "none", x |-> <<>>]
NoOut == [acc |-> "none", tag |-> "none", x |-> <<>>]

ExtIdle ==
  /\ imports = <<>>
  /\ module = NoModule
  /\ handed = <<>>
  /\ inst = "none"
  /\ raw = NoRaw
  /\ ext = NoExtern
  /\ back = NoRaw

ValIdle ==
  /\ vin = NoIn
  /\ val = NoVal
  /\ vout = NoOut

ResIdle ==
  /\ rcall = "none"
  /\ eng = NoEng
  /\ result = NoData
  /\ madeFrom = "none"
  /\ probe = NoProbe
  /\ rpc = "idle"

None == [tag |-> "none"]

ObjIdle ==
  /\ fcall = None
  /\ trp = None
  /\ wat = None
  /\ lim = None
  /\ ftype = None
  /\ fuel = None
  /\ glob = None
  /\ tab = None
  /\ mem = None

OldIdle == OwnIdle /\ ResIdle /\ ExtIdle /\ ValIdle

(***************************************************************************)
(* The owning wrapper classes: each holds                                  *)
(*   std::unique_ptr<wasm_X_t, deleter> ptr;                               *)
(***************************************************************************)
Classes == {"Config", "Engine", "Store", "Module", "Linker", "Trap",
            "ExternRef", "ValType", "MemoryType", "TableType", "GlobalType",
            "FuncType"}

\* classes with a user-written copy constructor and copy assignment
Copyable == {"Module", "ExternRef", "ValType", "MemoryType", "TableType",
             "GlobalType", "FuncType"}

\* the type wrappers, which keep a Ref member next to ptr
TypeWrappers == {"ValType", "MemoryType", "TableType", "GlobalType",
                 "FuncType"}

\* classes some constructor takes by value and calls ptr.release() on:
\* Engine(Config), TableType(ValType,..), GlobalType(ValType,..),
\* Val(ExternRef)
Consumable == {"Config", "ValType", "ExternRef"}

Handles == 1..MaxHandles
Slots == 1..MaxWrappers
CtxSlots == 1..MaxCtx

EmptySlot == [alive |-> FALSE, ptr |-> NULL, ref |-> NULL]

(***************************************************************************)
(* std::unique_ptr                                                         *)
(***************************************************************************)
\* get(): the stored pointer, which stays stored
unique_ptr_get_releasing(p) == [ret |-> p, ptr |-> NULL]
unique_ptr_get(p) == [ret |-> p, ptr |-> p]

\* release(): the stored pointer, and the unique_ptr is left empty
unique_ptr_release_keeping(p) == [ret |-> p, ptr |-> p]
unique_ptr_release(p) == [ret |-> p, ptr |-> NULL]

\* the deleter of unique_ptr runs only on a non-null pointer:
\* the handles passed to the class's delete function
unique_ptr_deleted_always(p) == {p}
unique_ptr_deleted(p) == IF p # NULL THEN {p} ELSE {}

\* the engine's delete function called on every pointer of ps, the engine's
\* handles being in state hs before the calls
CallDelete(hs, ps) ==
  /\ dels' = [h \in Handles |->
                IF h \in ps THEN (IF dels[h] < 2 THEN dels[h] + 1 ELSE 2)
                ELSE dels[h]]
  /\ hstate' = [h \in Handles |-> IF h \in ps THEN "deleted" ELSE hs[h]]
  /\ nullDels' = IF NULL \in ps THEN 1 ELSE nullDels

\* the engine's X_new / X_copy / X_clone: a handle never handed out before
Fresh(h) == /\ hstate[h] = "unused"
            /\ \A g \in Handles : g < h => hstate[g] # "unused"

\* the Ref member of a type wrapper, built from the raw pointer
RefOf(c, p) == IF c \in TypeWrappers THEN p ELSE NULL

OwnInit ==
  /\ cls \in Classes
  /\ wrappers = [w \in Slots |-> EmptySlot]
  /\ hstate = [h \in Handles |-> "unused"]
  /\ dels = [h \in Handles |-> 0]
  /\ nullDels = 0
  /\ ctxs = [c \in CtxSlots |-> NULL]
  /\ op = "init"

(***************************************************************************)
(* Construction, copy, move and destruction of a wrapper.                  *)
(***************************************************************************)
\* X() : ptr(X_new()) ; ValType(wasm_valtype_t *ptr) : ptr(ptr), ref(ptr)
Construct(w) ==
  /\ ~wrappers[w].alive
  /\ \E h \in Handles :
       /\ Fresh(h)
       /\ wrappers' = [wrappers EXCEPT
                         ![w] = [alive |-> TRUE, ptr |-> h,
                                 ref |-> RefOf(cls, h)]]
       /\ hstate' = [hstate EXCEPT ![h] = "live"]
  /\ op' = "Construct"
  /\ UNCHANGED notOwn
  /\ UNCHANGED <<cls, dels, nullDels, ctxs>>

\* X(const X &other) : X(X_copy(other.ptr.get()))
CopyConstruct(w, o) ==
  /\ cls \in Copyable
  /\ ~wrappers[w].alive
  /\ wrappers[o].alive /\ wrappers[o].ptr # NULL
  /\ \E h \in Handles :
       /\ Fresh(h)
       /\ LET g == unique_ptr_get(wrappers[o].ptr) IN
          wrappers' = [wrappers EXCEPT
                         ![o].ptr = g.ptr,
                         ![w] = [alive |-> TRUE, ptr |-> h,
                                 ref |-> RefOf(cls, h)]]
       /\ hstate' = [hstate EXCEPT ![h] = "live"]
  /\ op' = "CopyConstruct"
  /\ UNCHANGED notOwn
  /\ UNCHANGED <<cls, dels, nullDels, ctxs>>

\* X &operator=(const X &other) {
\*   ptr.reset(X_copy(other.ptr.get())); return *this; }
CopyAssign(w, o) ==
  /\ cls \in Copyable
  /\ wrappers[w].alive
  /\ wrappers[o].alive /\ wrappers[o].ptr # NULL
  /\ \E h \in Handles :
       /\ Fresh(h)
       /\ LET g == unique_ptr_get(wrappers[o].ptr) IN
          wrappers' = [x \in Slots |->
                         IF x = w THEN [wrappers[w] EXCEPT !.ptr = h]
                         ELSE IF x = o THEN [wrappers[o] EXCEPT !.ptr = g.ptr]
                         ELSE wrappers[x]]
       /\ CallDelete([hstate EXCEPT ![h] = "live"],
                     unique_ptr_deleted(wrappers[w].ptr))
  /\ op' = "CopyAssign"
  /\ UNCHANGED notOwn
  /\ UNCHANGED <<cls, ctxs>>

\* X(X &&other) = default: ptr is moved, the Ref member is copied
MoveConstruct(w, o) ==
  /\ ~wrappers[w].alive
  /\ wrappers[o].alive
  /\ LET r == unique_ptr_release(wrappers[o].ptr) IN
     wrappers' = [wrappers EXCEPT
                    ![o].ptr = r.ptr,
                    ![w] = [alive |-> TRUE, ptr |-> r.ret,
                            ref |-> wrappers[o].ref]]
  /\ op' = "MoveConstruct"
  /\ UNCHANGED notOwn
  /\ UNCHANGED <<cls, hstate, dels, nullDels, ctxs>>

\* X &operator=(X &&other) = default: ptr.reset(other.ptr.release()),
\* then the Ref member is copied
MoveAssign(w, o) ==
  /\ wrappers[w].alive
  /\ wrappers[o].alive
  /\ LET r == unique_ptr_release(wrappers[o].ptr)
         old == IF w = o THEN r.ptr ELSE wrappers[w].ptr
     IN /\ wrappers' = [x \in Slots |->
                          IF x = w
                          THEN [alive |-> TRUE, ptr |-> r.ret,
                                ref |-> wrappers[o].ref]
                          ELSE IF x = o
                          THEN [wrappers[o] EXCEPT !.ptr = r.ptr]
                          ELSE wrappers[x]]
        /\ CallDelete(hstate, unique_ptr_deleted(old))
  /\ op' = "MoveAssign"
  /\ UNCHANGED notOwn
  /\ UNCHANGED <<cls, ctxs>>

\* ~X() = default: the unique_ptr member deletes what it still holds
Destroy(w) ==
  /\ wrappers[w].alive
  /\ wrappers' = [wrappers EXCEPT ![w] = EmptySlot]
  /\ CallDelete(hstate, unique_ptr_deleted(wrappers[w].ptr))
  /\ op' = "Destroy"
  /\ UNCHANGED notOwn
  /\ UNCHANGED <<cls, ctxs>>

(***************************************************************************)
(* Constructors that take a wrapper by value and release() its handle to   *)
(* the engine:                                                             *)
(*   Engine(Config config)                                                 *)
(*     : ptr(wasm_engine_new_with_config(config.ptr.release())) {}         *)
(*   TableType(ValType ty, Limits limits)                                  *)
(*     : TableType(wasm_tabletype_new(ty.ptr.release(), &limits.raw)) {}   *)
(*   Val(ExternRef ptr) : val({.., .of = {.externref = ptr.ptr.release()}})*)
(***************************************************************************)
\* the argument is moved into the by-value parameter
ConsumeMove(w) ==
  /\ cls \in Consumable
  /\ wrappers[w].alive /\ wrappers[w].ptr # NULL
  /\ LET m == unique_ptr_release(wrappers[w].ptr)
         r == unique_ptr_release(m.ret)
     IN /\ wrappers' = [wrappers EXCEPT ![w].ptr = m.ptr]
        /\ CallDelete([hstate EXCEPT ![r.ret] = "engine"],
                      unique_ptr_deleted(r.ptr))
  /\ op' = "ConsumeMove"
  /\ UNCHANGED notOwn
  /\ UNCHANGED <<cls, ctxs>>

\* the argument is copied into the by-value parameter
ConsumeCopy(w) ==
  /\ cls \in Consumable \cap Copyable
  /\ wrappers[w].alive /\ wrappers[w].ptr # NULL
  /\ \E h \in Handles :
       /\ Fresh(h)
       /\ LET g == unique_ptr_get(wrappers[w].ptr)
              r == unique_ptr_release(h)
          IN /\ wrappers' = [wrappers EXCEPT ![w].ptr = g.ptr]
             /\ CallDelete([hstate EXCEPT ![r.ret] = "engine"],
                           unique_ptr_deleted(r.ptr))
  /\ op' = "ConsumeCopy"
  /\ UNCHANGED notOwn
  /\ UNCHANGED <<cls, ctxs>>

(***************************************************************************)
(* Store::Context: a raw wasmtime_context_t* obtained from the store       *)
(* handle; it has no destructor.                                           *)
(***************************************************************************)
\* Context(Store &store) : Context(wasmtime_store_context(store.ptr.get()))
\* Context context() { return this; }
ContextNew(w, c) ==
  /\ cls = "Store"
  /\ wrappers[w].alive /\ wrappers[w].ptr # NULL
  /\ ctxs[c] = NULL
  /\ LET g == unique_ptr_get(wrappers[w].ptr) IN
       /\ ctxs' = [ctxs EXCEPT ![c] = g.ret]
       /\ wrappers' = [wrappers EXCEPT ![w].ptr = g.ptr]
  /\ op' = "ContextNew"
  /\ UNCHANGED notOwn
  /\ UNCHANGED <<cls, hstate, dels, nullDels>>

\* the implicit copy of a Context (it is passed by value to every call)
ContextCopy(c, d) ==
  /\ cls = "Store"
  /\ ctxs[c] # NULL /\ c # d
  /\ ctxs' = [ctxs EXCEPT ![d] = ctxs[c]]
  /\ op' = "ContextCopy"
  /\ UNCHANGED notOwn
  /\ UNCHANGED <<cls, wrappers, hstate, dels, nullDels>>

\* a Context going out of scope
ContextDrop(c) ==
  /\ cls = "Store"
  /\ ctxs[c] # NULL
  /\ ctxs' = [ctxs EXCEPT ![c] = NULL]
  /\ op' = "ContextDrop"
  /\ UNCHANGED notOwn
  /\ UNCHANGED <<cls, wrappers, hstate, dels, nullDels>>

\* a wrapper call taking a Context (gc, add_fuel, fuel_consumed,
\* Global::get, Memory::size, ...): the engine is handed cx.ptr
ContextCall(c) ==
  /\ cls = "Store"
  /\ ctxs[c] # NULL /\ hstate[ctxs[c]] = "live"
  /\ op' = "ContextCall"
  /\ UNCHANGED notOwn
  /\ UNCHANGED <<cls, wrappers, hstate, dels, nullDels, ctxs>>

OwnNext ==
  \/ \E w \in Slots : Construct(w)
  \/ \E w, o \in Slots : CopyConstruct(w, o)
  \/ \E w, o \in Slots : CopyAssign(w, o)
  \/ \E w, o \in Slots : MoveConstruct(w, o)
  \/ \E w, o \in Slots : MoveAssign(w, o)
  \/ \E w \in Slots : Destroy(w)
  \/ \E w \in Slots : ConsumeMove(w)
  \/ \E w \in Slots : ConsumeCopy(w)
  \/ \E w \in Slots, c \in CtxSlots : ContextNew(w, c)
  \/ \E c, d \in CtxSlots : ContextCopy(c, d)
  \/ \E c \in CtxSlots : ContextDrop(c)
  \/ \E c \in CtxSlots : ContextCall(c)


Init == OwnInit /\ ResIdle /\ ExtIdle /\ ValIdle /\ ObjIdle /\ xpc = "run"
Next == OwnNext
Spec == Init /\ [][Next]_vars

(***************************************************************************)
(* Ownership properties (specification Spec).                              *)
(***************************************************************************)
\* the wrappers that own handle h
Owners(h) == {w \in Slots : wrappers[w].alive /\ wrappers[w].ptr = h}

\* a handle a wrapper is responsible for: owned by exactly one wrapper and
\* not yet deleted, or owned by none and deleted exactly once
OwnedOrDeletedOnce(h) ==
  \/ /\ hstate[h] = "live" /\ dels[h] = 0 /\ Cardinality(Owners(h)) = 1
  \/ /\ hstate[h] = "deleted" /\ dels[h] = 1 /\ Owners(h) = {}

\* a handle released to the engine by a consuming constructor: no wrapper
\* owns it and the wrapper never deletes it
HandedToEngine(h) ==
  hstate[h] = "engine" /\ dels[h] = 0 /\ Owners(h) = {}

\* C1 (as stated): every handle obtained from the engine is passed to its
\* delete function exactly once, no later than the end of its last owning
\* wrapper, never twice, and delete is never called for an empty wrapper.
C1_EveryHandleDeletedOnce ==
  /\ nullDels = 0
  /\ \A h \in Handles : hstate[h] # "unused" => OwnedOrDeletedOnce(h)

\* C1 (amended): the same, except for a handle that a consuming constructor
\* released to the engine; such a handle is never deleted by the wrapper.
C1_HandleDeletedOnceUnlessReleased ==
  /\ nullDels = 0
  /\ \A h \in Handles :
       hstate[h] # "unused" => OwnedOrDeletedOnce(h) \/ HandedToEngine(h)

\* a handle was deleted by overwriting, one was released to the engine and one
\* is owned by a wrapper, while a moved-from wrapper is still alive
C1_Witness ==
  /\ op = "MoveAssign"
  /\ \E h \in Handles : dels[h] = 1
  /\ \E h \in Handles : hstate[h] = "engine"
  /\ \E h \in Handles : hstate[h] = "live"
  /\ \E w \in Slots : wrappers[w].alive /\ wrappers[w].ptr = NULL

ContextOps == {"ContextNew", "ContextCopy", "ContextDrop", "ContextCall"}

\* C7: obtaining, copying and dropping Context views and calls taking a
\* Context leave the Store wrappers and the store handles as they are; a
\* store handle is owned by exactly one Store until it is deleted, exactly
\* once, and destroying the owning Store deletes it whatever views exist.
C7_ContextNeverReleasesStore ==
  /\ [][(cls = "Store" /\ op' \in ContextOps)
           => (wrappers' = wrappers /\ hstate' = hstate /\ dels' = dels)]_vars
  /\ [](cls = "Store" =>
          \A h \in Handles : hstate[h] # "unused" => OwnedOrDeletedOnce(h))
  /\ [][(cls = "Store" /\ op' = "Destroy")
           => \A h \in Handles :
                (h \in {wrappers[w].ptr : w \in Slots}
                 /\ h \notin {wrappers'[w].ptr : w \in Slots})
                => (dels[h] = 0 /\ dels'[h] = 1)]_vars

\* a Store was destroyed while a Context view of its handle was in scope
C7_Witness ==
  /\ cls = "Store" /\ op = "Destroy"
  /\ \E c \in CtxSlots : ctxs[c] # NULL /\ dels[ctxs[c]] = 1

\* C8: the Ref that operator-> / operator* of a type wrapper returns (&ref)
\* designates the handle the wrapper owns, which has not been released.
C8_RefDesignatesOwnedHandle ==
  cls \in TypeWrappers =>
    \A w \in Slots :
      (wrappers[w].alive /\ wrappers[w].ptr # NULL)
        => (wrappers[w].ref = wrappers[w].ptr
            /\ hstate[wrappers[w].ref] = "live")

(***************************************************************************)
(* Error, Result<T, E> and TrapResult<T> (specification SpecResult).       *)
(***************************************************************************)
MaxMsgLen == 2
Chars == {"a", "b"}

\* the message texts the engine may attach to an error or a trap
Msgs == UNION {[1..n -> Chars] : n \in 0..MaxMsgLen}

\* the engine's wasm_byte_vec_t for a text: wasmtime_error_message(error, &v)
ByteVec(m) == [data |-> m, size |-> Len(m)]

\* std::string(const char *data, size_t size)
std_string_short(data, size) == SubSeq(data, 1, size - 1)
std_string(data, size) == SubSeq(data, 1, size)

\* Error(wasmtime_error_t *error): msg is the text of the engine's error
Error_ctor(error) ==
  LET msg_bytes == ByteVec(error.msg)
  IN [alt |-> "Error", v |-> "none",
      msg |-> std_string(msg_bytes.data, msg_bytes.size)]

\* std::string_view message() const { return msg; }
Error_message(e) == e.msg

\* Trap(wasm_trap_t *ptr): owns the engine's trap
Trap_ctor(trap) == [alt |-> "Trap", v |-> "none", msg |-> trap.tmsg]

\* a value of the success type T: std::monostate or what the engine put in
\* the out-parameter
Success(v) == [alt |-> "T", v |-> v, msg |-> <<>>]

\* Result(T t) : data(std::move(t)) {}
Result_ok(t) == [index |-> 0, val |-> t]
\* Result(E e) : data(std::move(e)) {}
Result_err(e) == [index |-> 1, val |-> e]

\* operator bool() { return data.index() == 0; }
Result_bool_inverted(r) == r.index = 1
Result_bool(r) == r.index = 0

\* std::get<I>(std::move(data)): the alternative if it is the active one,
\* std::bad_variant_access otherwise
std_get_unchecked(data, i) ==
  [acc |-> "get", tag |-> "value", val |-> data.val]
std_get(data, i) ==
  IF data.index = i
  THEN [acc |-> "get", tag |-> "value", val |-> data.val]
  ELSE [acc |-> "get", tag |-> "bad_variant_access", val |-> NoProbe.val]

\* T &&ok() { return std::get<T>(std::move(data)); }
Result_ok_get(r) == [std_get(r, 0) EXCEPT !.acc = "ok"]
\* E &&err() { return std::get<E>(std::move(data)); }
Result_err_get(r) == [std_get(r, 1) EXCEPT !.acc = "err"]

\* the operations of the shape
\*   auto *error = wasmtime_X(...); if (error != nullptr) return Error(error);
\*   return <value>;
UnitOps == {"Config::strategy", "Config::profiler",
            "Config::cache_load_default", "Config::cache_load",
            "Module::validate", "Context::add_fuel", "Context::set_wasi",
            "Global::set", "Table::set", "Linker::define",
            "Linker::define_wasi", "Linker::define_instance",
            "Linker::module"}
ValueOps == {"wat2wasm", "Module::compile", "Module::deserialize",
             "Module::serialize", "Global::create", "Table::create",
             "Table::grow", "Memory::create", "Memory::grow",
             "Linker::get_default"}
FallibleOps == UnitOps \cup ValueOps
TrapOps == {"Instance::create", "Linker::instantiate"}

\* what an engine call may hand back as its error
EngErrors == {[null |-> TRUE, msg |-> <<>>]}
             \cup {[null |-> FALSE, msg |-> m] : m \in Msgs}
\* what an engine call may hand back as its trap
EngTraps == {[trapnull |-> TRUE, tmsg |-> <<>>]}
            \cup {[trapnull |-> FALSE, tmsg |-> m] : m \in Msgs}

\* if (error != nullptr) { return Error(error); } return value;
ResultOf_inverted(error, value) ==
  IF error.null THEN Result_err(Error_ctor(error)) ELSE Result_ok(value)
ResultOf(error, value) ==
  IF ~error.null THEN Result_err(Error_ctor(error)) ELSE Result_ok(value)

\* if (error != nullptr) { return TrapError(Error(error)); }
\* if (trap != nullptr) { return TrapError(Trap(trap)); }
\* return Instance(instance);
TrapResultOf_ignoring_trap(error, trap, value) ==
  IF ~error.null THEN Result_err(Error_ctor(error)) ELSE Result_ok(value)
TrapResultOf(error, trap, value) ==
  IF ~error.null THEN Result_err(Error_ctor(error))
  ELSE IF ~trap.trapnull THEN Result_err(Trap_ctor(trap))
  ELSE Result_ok(value)

ResInit ==
  /\ op = "init"
  /\ ResIdle
  /\ OwnIdle /\ ExtIdle /\ ValIdle /\ ObjIdle /\ xpc = "run"

Returned(f, e, t, r) ==
  /\ rcall' = f
  /\ eng' = [null |-> e.null, msg |-> e.msg,
              trapnull |-> t.trapnull, tmsg |-> t.tmsg]
  /\ result' = r
  /\ madeFrom' = IF r.index = 0 THEN "T" ELSE "E"
  /\ probe' = NoProbe
  /\ rpc' = "returned"
  /\ UNCHANGED notRes

\* one of FallibleOps is called and the engine answers with error e
Call(f, e) ==
  /\ rpc # "aborted"
  /\ f \in FallibleOps
  /\ Returned(f, e, [trapnull |-> TRUE, tmsg |-> <<>>],
              ResultOf(e, Success(IF f \in UnitOps THEN "monostate"
                                                   ELSE "out")))
  /\ op' = "Call"

\* Module::compile(Engine &engine, std::string_view wat):
\*   auto wasm = wat2wasm(wat); if (!wasm) { return wasm.err(); }
\*   auto bytes = wasm.ok(); return compile(engine, bytes);
\* e1 is the answer of wasmtime_wat2wasm, e2 that of wasmtime_module_new
Module_compile_wat(e1, e2) ==
  /\ rpc # "aborted"
  /\ LET wasm == ResultOf(e1, Success("out")) IN
     IF ~Result_bool(wasm)
     THEN Returned("Module::compile(wat)", e1,
                   [trapnull |-> TRUE, tmsg |-> <<>>],
                   Result_err(Result_err_get(wasm).val))
     ELSE Returned("Module::compile(wat)", e2,
                   [trapnull |-> TRUE, tmsg |-> <<>>],
                   ResultOf(e2, Success("out")))
  /\ op' = "Module_compile_wat"

\* Instance::create / Linker::instantiate: the engine answers with an error
\* e and a trap t
Instantiate(f, e, t) ==
  /\ rpc # "aborted"
  /\ f \in TrapOps
  /\ Returned(f, e, t, TrapResultOf(e, t, Success("out")))
  /\ op' = "Instantiate"

\* a Result built directly from a success value or from an error
MakeOk(v) ==
  /\ rpc # "aborted"
  /\ rcall' = "Result(T)"
  /\ eng' = NoEng
  /\ result' = Result_ok(Success(v))
  /\ madeFrom' = "T"
  /\ probe' = NoProbe
  /\ rpc' = "returned"
  /\ op' = "MakeOk"
  /\ UNCHANGED notRes

MakeErr(m) ==
  /\ rpc # "aborted"
  /\ rcall' = "Result(E)"
  /\ eng' = NoEng
  /\ result' = Result_err(Error_ctor([null |-> FALSE, msg |-> m]))
  /\ madeFrom' = "E"
  /\ probe' = NoProbe
  /\ rpc' = "returned"
  /\ op' = "MakeErr"
  /\ UNCHANGED notRes

\* if (result) ...
ResultBool ==
  /\ rpc = "returned"
  /\ probe' = [acc |-> "bool", tag |-> "value",
               val |-> Success(Result_bool(result))]
  /\ op' = "ResultBool"
  /\ UNCHANGED <<rcall, eng, result, madeFrom, rpc>>
  /\ UNCHANGED notRes

\* the caller of ok() / err() may move the value out of the rvalue reference
\* it gets, which leaves the stored alternative moved-from
MovedFrom(stored) == [stored EXCEPT !.v = "moved-from", !.msg = <<>>]

\* an exception that leaves ok() / err() meets no handler: std::terminate
Accessed(p, take) ==
  /\ probe' = p
  /\ rpc' = IF p.tag = "value" THEN "returned" ELSE "aborted"
  /\ result' = IF p.tag = "value" /\ take
                THEN [result EXCEPT !.val = MovedFrom(result.val)]
                ELSE result
  /\ UNCHANGED <<rcall, eng, madeFrom>>
  /\ UNCHANGED notRes

\* result.ok()
ResultOkGet(take) ==
  /\ rpc = "returned"
  /\ Accessed(Result_ok_get(result), take)
  /\ op' = "ResultOkGet"

\* result.err()
ResultErrGet(take) ==
  /\ rpc = "returned"
  /\ Accessed(Result_err_get(result), take)
  /\ op' = "ResultErrGet"

ResNext ==
  \/ \E f \in FallibleOps, e \in EngErrors : Call(f, e)
  \/ \E e1, e2 \in EngErrors : Module_compile_wat(e1, e2)
  \/ \E f \in TrapOps, e \in EngErrors, t \in EngTraps : Instantiate(f, e, t)
  \/ \E v \in {"monostate", "out"} : MakeOk(v)
  \/ \E m \in Msgs : MakeErr(m)
  \/ ResultBool
  \/ \E take \in BOOLEAN : ResultOkGet(take)
  \/ \E take \in BOOLEAN : ResultErrGet(take)

SpecResult == ResInit /\ [][ResNext]_vars

(***************************************************************************)
(* Properties of the tagged results (specification SpecResult).            *)
(***************************************************************************)
\* C2: an operation returning Result<T, Error> returns the error alternative
\* exactly when the engine call returned a non-null error, Error::message()
\* is then the text the engine attached to it; otherwise it returns the
\* success alternative.
C2_ErrorIffEngineError ==
  op \in {"Call", "Module_compile_wat"} =>
    /\ (result.index = 1) <=> ~eng.null
    /\ ~eng.null => (/\ result.val.alt = "Error"
                     /\ Error_message(result.val) = eng.msg)
    /\ eng.null => (result.index = 0 /\ result.val.alt = "T")

\* an operation returned the engine's error with a non-empty message
C2_Witness ==
  /\ op = "Call" /\ rcall = "Module::validate"
  /\ ~eng.null /\ Len(eng.msg) >= 2
  /\ result.index = 1

\* C3: operator bool is true exactly for a Result built from a success;
\* ok() on a success and err() on an error return the stored alternative;
\* ok() on an error and err() on a success return no value and end the
\* program.
C3_ResultAccessors ==
  /\ [](op = "ResultBool" => ((probe.val.v = TRUE) <=> (madeFrom = "T")))
  /\ [][op' = "ResultOkGet" =>
           IF madeFrom = "T"
           THEN probe'.tag = "value" /\ probe'.val = result.val
                /\ rpc' = "returned"
           ELSE probe'.tag # "value" /\ rpc' = "aborted"]_vars
  /\ [][op' = "ResultErrGet" =>
           IF madeFrom = "E"
           THEN probe'.tag = "value" /\ probe'.val = result.val
                /\ rpc' = "returned"
           ELSE probe'.tag # "value" /\ rpc' = "aborted"]_vars

\* ok() was called on a Result holding an error
C3_Witness ==
  /\ op = "ResultOkGet" /\ madeFrom = "E" /\ result.index = 1
  /\ rpc = "aborted"

\* C4: Instance::create and Linker::instantiate return a TrapError holding
\* an Error when the engine reports an error, a TrapError holding a Trap
\* when it reports a trap and no error, and an Instance only when it
\* reports neither.
C4_ThreeOutcomes ==
  op = "Instantiate" =>
    /\ ~eng.null => (result.index = 1 /\ result.val.alt = "Error"
                     /\ result.val.msg = eng.msg)
    /\ (eng.null /\ ~eng.trapnull) =>
         (result.index = 1 /\ result.val.alt = "Trap"
          /\ result.val.msg = eng.tmsg)
    /\ (result.index = 0) <=> (eng.null /\ eng.trapnull)
    /\ result.index = 0 => result.val.alt = "T"

\* the engine reported a trap and no error
C4_Witness ==
  /\ op = "Instantiate" /\ rcall = "Instance::create"
  /\ eng.null /\ ~eng.trapnull
  /\ result.index = 1 /\ result.val.alt = "Trap"

(***************************************************************************)
(* Extern, Instance::cvt and Instance::create (specification SpecExtern).  *)
(***************************************************************************)
MaxImports == 2
MaxPayload == 2

\* the kinds of a wasmtime_extern_t the binding knows
ExternKinds == {"WASMTIME_EXTERN_FUNC", "WASMTIME_EXTERN_GLOBAL",
                "WASMTIME_EXTERN_TABLE", "WASMTIME_EXTERN_MEMORY",
                "WASMTIME_EXTERN_INSTANCE", "WASMTIME_EXTERN_MODULE"}
\* any other value of the kind byte
RawKinds == ExternKinds \cup {"OTHER"}

\* what the union raw.of holds: a wasmtime_func_t, wasmtime_global_t, ...,
\* or a wasmtime_module_t*; none of them is all zero for a real item
Payloads == 1..MaxPayload

\* typedef std::variant<Instance, Module, Func, Global, Memory, Table> Extern
ExternAlts == {"Instance", "Module", "Func", "Global", "Memory", "Table"}
Externs == [alt : ExternAlts, payload : Payloads]
Raws == [kind : RawKinds, of : Payloads]

\* wasmtime_extern_t{}: every byte zero, and kind 0 is WASMTIME_EXTERN_FUNC
ValueInitExtern == [kind |-> "WASMTIME_EXTERN_FUNC", of |-> NULL]

\* static Extern cvt(wasmtime_extern_t &e)
cvt_from_raw(e) ==
  CASE e.kind = "WASMTIME_EXTERN_FUNC" -> [alt |-> "Func", payload |-> e.of]
    [] e.kind = "WASMTIME_EXTERN_GLOBAL" ->
         [alt |-> "Global", payload |-> e.of]
    [] e.kind = "WASMTIME_EXTERN_MEMORY" ->
         [alt |-> "Memory", payload |-> e.of]
    [] e.kind = "WASMTIME_EXTERN_TABLE" -> [alt |-> "Table", payload |-> e.of]
    [] e.kind = "WASMTIME_EXTERN_INSTANCE" ->
         [alt |-> "Instance", payload |-> e.of]
    [] e.kind = "WASMTIME_EXTERN_MODULE" ->
         [alt |-> "Module", payload |-> e.of]
    [] OTHER -> [alt |-> "abort", payload |-> NULL]

\* static void cvt(Extern &e, wasmtime_extern_t &raw): what raw is afterwards
cvt_to_raw_swapped(e, r) ==
  IF e.alt = "Func"
  THEN [kind |-> "WASMTIME_EXTERN_FUNC", of |-> e.payload]
  ELSE IF e.alt = "Global"
  THEN [kind |-> "WASMTIME_EXTERN_GLOBAL", of |-> e.payload]
  ELSE IF e.alt = "Table"
  THEN [kind |-> "WASMTIME_EXTERN_MEMORY", of |-> e.payload]
  ELSE IF e.alt = "Memory"
  THEN [kind |-> "WASMTIME_EXTERN_TABLE", of |-> e.payload]
  ELSE IF e.alt = "Instance"
  THEN [kind |-> "WASMTIME_EXTERN_INSTANCE", of |-> e.payload]
  ELSE IF e.alt = "Module"
  THEN [kind |-> "WASMTIME_EXTERN_MODULE", of |-> e.payload]
  ELSE [kind |-> "abort", of |-> r.of]
cvt_to_raw(e, r) ==
  IF e.alt = "Func"
  THEN [kind |-> "WASMTIME_EXTERN_FUNC", of |-> e.payload]
  ELSE IF e.alt = "Global"
  THEN [kind |-> "WASMTIME_EXTERN_GLOBAL", of |-> e.payload]
  ELSE IF e.alt = "Table"
  THEN [kind |-> "WASMTIME_EXTERN_TABLE", of |-> e.payload]
  ELSE IF e.alt = "Memory"
  THEN [kind |-> "WASMTIME_EXTERN_MEMORY", of |-> e.payload]
  ELSE IF e.alt = "Instance"
  THEN [kind |-> "WASMTIME_EXTERN_INSTANCE", of |-> e.payload]
  ELSE IF e.alt = "Module"
  THEN [kind |-> "WASMTIME_EXTERN_MODULE", of |-> e.payload]
  ELSE [kind |-> "abort", of |-> r.of]

\* Instance::create, the loop that fills raw_imports:
\*   for (auto item : imports) {
\*     raw_imports.push_back(wasmtime_extern_t{});
\*     auto last = raw_imports.back();
\*     Instance::cvt(item, last);
\*   }
\* last is a copy of the new element: cvt writes the copy, the element of
\* raw_imports stays as push_back left it
Instance_create_raw_imports(imps) ==
  [i \in 1..Len(imps) |->
     LET pushed == ValueInitExtern
         last == cvt_to_raw(imps[i], pushed)
     IN pushed]

\* the engine's wasmtime_instance_new: an error unless the array has one
\* item of the needed kind per import of the module, then a trap if the
\* start function traps
wasmtime_instance_new(mod, arr) ==
  IF ~(/\ Len(arr) = Len(mod.need)
       /\ \A i \in 1..Len(arr) :
            arr[i].kind = mod.need[i] /\ arr[i].of \in Payloads)
  THEN [error |-> [null |-> FALSE, msg |-> <<"a">>],
        trap |-> [trapnull |-> TRUE, tmsg |-> <<>>]]
  ELSE IF mod.startTraps
  THEN [error |-> [null |-> TRUE, msg |-> <<>>],
        trap |-> [trapnull |-> FALSE, tmsg |-> <<"b">>]]
  ELSE [error |-> [null |-> TRUE, msg |-> <<>>],
        trap |-> [trapnull |-> TRUE, tmsg |-> <<>>]]

\* the kind of raw extern that mirrors an alternative of Extern
ExternKindOf ==
  [Func |-> "WASMTIME_EXTERN_FUNC", Global |-> "WASMTIME_EXTERN_GLOBAL",
   Table |-> "WASMTIME_EXTERN_TABLE", Memory |-> "WASMTIME_EXTERN_MEMORY",
   Instance |-> "WASMTIME_EXTERN_INSTANCE",
   Module |-> "WASMTIME_EXTERN_MODULE"]

ImportVectors == UNION {[1..n -> Externs] : n \in 0..MaxImports}

\* TEST(Instance, Smoke): Instance::create(store, mod, {f, g, t, m})
SmokeImports == << [alt |-> "Func", payload |-> 1],
                   [alt |-> "Global", payload |-> 1],
                   [alt |-> "Table", payload |-> 1],
                   [alt |-> "Memory", payload |-> 1] >>

NeededKinds(imps) == [i \in 1..Len(imps) |-> ExternKindOf[imps[i].alt]]

ExtInit ==
  /\ op = "init"
  /\ ExtIdle /\ xpc = "run"
  /\ OwnIdle /\ ResIdle /\ ValIdle /\ ObjIdle

\* static TrapResult<Instance> create(Store::Context cx, const Module &m,
\*                                    const std::vector<Extern> &imports)
Instance_create(imps, mod) ==
  /\ xpc = "run"
  /\ inst = "none"
  /\ raw' = NoRaw /\ ext' = NoExtern /\ back' = NoRaw
  /\ imports' = imps
  /\ module' = mod
  /\ LET raw_imports == Instance_create_raw_imports(imps)
         answer == wasmtime_instance_new(mod, raw_imports)
         res == TrapResultOf(answer.error, answer.trap, Success("out"))
     IN /\ handed' = raw_imports
        /\ inst' = IF res.index = 0 THEN "Instance" ELSE res.val.alt
  /\ op' = "Instance_create"
  /\ UNCHANGED xpc
  /\ UNCHANGED notExt

\* Instance::cvt(e) on a raw extern the engine filled in (as in
\* Instance::get and Linker::get); the variables of Instance::create
\* describe the call made last and are cleared
CvtFromRaw(r) ==
  /\ xpc = "run"
  /\ raw' = r
  /\ ext' = cvt_from_raw(r)
  /\ back' = NoRaw
  /\ xpc' = IF cvt_from_raw(r).alt = "abort" THEN "aborted" ELSE "run"
  /\ op' = "CvtFromRaw"
  /\ imports' = <<>> /\ module' = NoModule /\ handed' = <<>> /\ inst' = "none"
  /\ UNCHANGED notExt

\* Instance::cvt(item, raw) on the Extern made before
CvtToRaw ==
  /\ xpc = "run"
  /\ ext.alt \in ExternAlts
  /\ back' = cvt_to_raw(ext, ValueInitExtern)
  /\ op' = "CvtToRaw"
  /\ UNCHANGED <<imports, module, handed, inst, raw, ext, xpc>>
  /\ UNCHANGED notExt

ExtNext ==
  \/ /\ xpc = "run" /\ inst = "none"
     /\ \E imps \in ImportVectors \cup {SmokeImports},
           traps \in BOOLEAN, matching \in BOOLEAN :
          Instance_create(imps,
                          [need |-> IF matching THEN NeededKinds(imps)
                                                ELSE <<>>,
                           startTraps |-> traps])
  \/ \E r \in Raws : CvtFromRaw(r)
  \/ CvtToRaw

SpecExtern == ExtInit /\ [][ExtNext]_vars

\* C5: Instance::create hands the engine an array as long as imports whose
\* i-th entry has the kind and the payload of imports[i]; so a module whose
\* imports are matched by the externs given (and whose start does not trap)
\* is instantiated.
C5_ImportsHandedInOrder ==
  op = "Instance_create" =>
    /\ Len(handed) = Len(imports)
    /\ \A i \in 1..Len(imports) :
         /\ handed[i].kind = ExternKindOf[imports[i].alt]
         /\ handed[i].of = imports[i].payload
    /\ (module.need = NeededKinds(imports) /\ ~module.startTraps)
         => inst = "Instance"

\* C6: a raw extern of one of the six kinds becomes the alternative of the
\* same kind with the same payload, and that Extern converts back to the
\* original kind and payload; a raw extern of another kind aborts.
C6_ExternRoundTrip ==
  /\ op = "CvtFromRaw" =>
       IF raw.kind \in ExternKinds
       THEN /\ ext.alt \in ExternAlts
            /\ ExternKindOf[ext.alt] = raw.kind
            /\ ext.payload = raw.of
            /\ xpc = "run"
       ELSE ext.alt = "abort" /\ xpc = "aborted"
  /\ op = "CvtToRaw" => back = raw

\* a raw table extern went to an Extern and back
C6_Witness ==
  /\ op = "CvtToRaw"
  /\ raw.kind = "WASMTIME_EXTERN_TABLE" /\ ext.alt = "Table"
  /\ back = raw

(***************************************************************************)
(* ValKind, ValType and Val (specification SpecVal).                       *)
(***************************************************************************)
MaxWord == 1

\* the values of a 32-bit word of storage
Words == 0..MaxWord

ValKinds == {"KindI32", "KindI64", "KindF32", "KindF64", "KindV128",
             "KindExternRef", "KindFuncRef"}

\* static wasm_valkind_t kind_to_c(ValKind kind)
kind_to_c(kind) ==
  CASE kind = "KindI32" -> "WASM_I32"
    [] kind = "KindI64" -> "WASM_I64"
    [] kind = "KindF32" -> "WASM_F32"
    [] kind = "KindF64" -> "WASM_F64"
    [] kind = "KindExternRef" -> "WASM_ANYREF"
    [] kind = "KindFuncRef" -> "WASM_FUNCREF"
    [] kind = "KindV128" -> "WASMTIME_V128"
    [] OTHER -> "abort"

\* the engine's wasm_valtype_new and wasm_valtype_kind
wasm_valtype_new(c) == [kind |-> c]
wasm_valtype_kind(p) == p.kind

\* ValKind ValType::Ref::kind() const
Ref_kind(p) ==
  LET c == wasm_valtype_kind(p) IN
  CASE c = "WASM_I32" -> "KindI32"
    [] c = "WASM_I64" -> "KindI64"
    [] c = "WASM_F32" -> "KindF32"
    [] c = "WASM_F64" -> "KindF64"
    [] c = "WASM_ANYREF" -> "KindExternRef"
    [] c = "WASM_FUNCREF" -> "KindFuncRef"
    [] OTHER -> "abort"

(***************************************************************************)
(* wasmtime_val_t is { kind; union of } and the union is 16 bytes: w0 is   *)
(* its bytes 0..3, w1 its bytes 4..7, w23 its bytes 8..15.                 *)
(*   i32, f32           : w0                                               *)
(*   i64, f64, externref: w0, w1                                           *)
(*   v128               : w0, w1, w23                                      *)
(*   funcref            : store_id in w0, w1 and index in w23              *)
(* An initializer .of = {.i32 = 0} initializes the member i32 only: the    *)
(* other bytes of the union are indeterminate, g stands for what they      *)
(* happen to hold.                                                         *)
(***************************************************************************)
Garbage == [w1 : Words, w23 : Words]

\* Val(int32_t i32) : val({.kind = WASMTIME_I32, .of = {.i32 = i32}})
Val_from_i32(x, g) ==
  [kind |-> "WASMTIME_I32", w0 |-> x[1], w1 |-> g.w1, w23 |-> g.w23]
\* Val(int64_t i64) : val({.kind = WASMTIME_I64, .of = {.i64 = i64}})
Val_from_i64(x, g) ==
  [kind |-> "WASMTIME_I64", w0 |-> x[1], w1 |-> x[2], w23 |-> g.w23]
\* Val(float f32) : val({.kind = WASMTIME_F32, .of = {.f32 = f32}})
Val_from_f32(x, g) ==
  [kind |-> "WASMTIME_F32", w0 |-> x[1], w1 |-> g.w1, w23 |-> g.w23]
\* Val(double f64) : val({.kind = WASMTIME_F64, .of = {.f64 = f64}})
Val_from_f64(x, g) ==
  [kind |-> "WASMTIME_F64", w0 |-> x[1], w1 |-> x[2], w23 |-> g.w23]
\* Val(wasmtime_v128 v128) : val({.kind = WASMTIME_V128, .of = {.i32 = 0}})
\*   { memcpy(&val.of.v128[0], v128, sizeof(wasmtime_v128)); }
Val_from_v128(x, g) ==
  [kind |-> "WASMTIME_V128", w0 |-> x[1], w1 |-> x[2], w23 |-> x[3]]
\* Val(std::optional<ExternRef> ptr)
\*   : val({.kind = WASMTIME_EXTERNREF, .of = {.externref = nullptr}})
\*   { if (ptr) val.of.externref = ptr->ptr.release();
\*     else val.of.externref = nullptr; }
Val_from_optional_externref(x, g) ==
  IF x # <<>>
  THEN [kind |-> "WASMTIME_EXTERNREF", w0 |-> x[1], w1 |-> x[2],
        w23 |-> g.w23]
  ELSE [kind |-> "WASMTIME_EXTERNREF", w0 |-> 0, w1 |-> 0, w23 |-> g.w23]
\* Val::Val(std::optional<Func *> func)
\*   : val({.kind = WASMTIME_FUNCREF, .of = {.i32 = 0}})
\*   { if (!func) return; val.of.funcref = (**func).func; }
Val_from_optional_func(x, g) ==
  IF x = <<>>
  THEN [kind |-> "WASMTIME_FUNCREF", w0 |-> 0, w1 |-> g.w1, w23 |-> g.w23]
  ELSE [kind |-> "WASMTIME_FUNCREF", w0 |-> x[1], w1 |-> x[2], w23 |-> x[3]]

\* ValKind Kind() const
Val_Kind(v) ==
  CASE v.kind = "WASMTIME_I32" -> "KindI32"
    [] v.kind = "WASMTIME_I64" -> "KindI64"
    [] v.kind = "WASMTIME_F32" -> "KindF32"
    [] v.kind = "WASMTIME_F64" -> "KindF64"
    [] v.kind = "WASMTIME_FUNCREF" -> "KindFuncRef"
    [] v.kind = "WASMTIME_EXTERNREF" -> "KindExternRef"
    [] v.kind = "WASMTIME_V128" -> "KindV128"
    [] OTHER -> "abort"

Aborts(acc) == [acc |-> acc, tag |-> "abort", x |-> <<>>]
Yields(acc, x) == [acc |-> acc, tag |-> "value", x |-> x]
Nullopt(acc) == [acc |-> acc, tag |-> "nullopt", x |-> <<>>]

\* int32_t i32() const
Val_i32(v) ==
  IF v.kind # "WASMTIME_I32" THEN Aborts("i32") ELSE Yields("i32", <<v.w0>>)
\* int64_t i64() const
Val_i64(v) ==
  IF v.kind # "WASMTIME_I64" THEN Aborts("i64")
  ELSE Yields("i64", <<v.w0, v.w1>>)
\* float f32() const
Val_f32(v) ==
  IF v.kind # "WASMTIME_F32" THEN Aborts("f32") ELSE Yields("f32", <<v.w0>>)
\* double f64() const
Val_f64(v) ==
  IF v.kind # "WASMTIME_F64" THEN Aborts("f64")
  ELSE Yields("f64", <<v.w0, v.w1>>)
\* const uint8_t *v128() const
Val_v128(v) ==
  IF v.kind # "WASMTIME_V128" THEN Aborts("v128")
  ELSE Yields("v128", <<v.w0, v.w1, v.w23>>)
\* std::optional<ExternRef> externref() const
Val_externref(v) ==
  IF v.kind # "WASMTIME_EXTERNREF" THEN Aborts("externref")
  ELSE IF <<v.w0, v.w1>> # <<0, 0>>
  THEN Yields("externref", <<v.w0, v.w1>>)
  ELSE Nullopt("externref")
\* std::optional<Func> Val::func() const
Val_func(v) ==
  IF v.kind # "WASMTIME_FUNCREF" THEN Aborts("func")
  ELSE IF <<v.w0, v.w1>> = <<0, 0>> THEN Nullopt("func")
  ELSE Yields("func", <<v.w0, v.w1, v.w23>>)

\* the C++ values a Val is constructed from, as the words they are made of
Pointers == (Words \X Words) \ {<<0, 0>>}
Inputs ==
  [type : {"int32_t", "float"}, x : Words \X {0}]
  \cup [type : {"int64_t", "double"}, x : Words \X Words]
  \cup [type : {"wasmtime_v128"}, x : Words \X Words \X Words]
  \cup [type : {"optional<ExternRef>"}, x : Pointers \cup {<<>>}]
  \cup [type : {"optional<Func*>"},
        x : {<<p[1], p[2], i>> : p \in Pointers, i \in Words} \cup {<<>>}]

\* the constructor overload resolution picks for the argument
Val_ctor(in, g) ==
  CASE in.type = "int32_t" -> Val_from_i32(in.x, g)
    [] in.type = "int64_t" -> Val_from_i64(in.x, g)
    [] in.type = "float" -> Val_from_f32(in.x, g)
    [] in.type = "double" -> Val_from_f64(in.x, g)
    [] in.type = "wasmtime_v128" -> Val_from_v128(in.x, g)
    [] in.type = "optional<ExternRef>" -> Val_from_optional_externref(in.x, g)
    [] in.type = "optional<Func*>" -> Val_from_optional_func(in.x, g)

ValInit ==
  /\ op = "init"
  /\ ValIdle /\ xpc = "run"
  /\ OwnIdle /\ ResIdle /\ ExtIdle /\ ObjIdle

\* ValType(k)->kind()
ValType_kind(k) ==
  /\ xpc = "run"
  /\ vin' = [type |-> "ValKind", x |-> <<k>>]
  /\ val' = NoVal
  /\ LET ptr == wasm_valtype_new(kind_to_c(k))
         r == Ref_kind(ptr)
     IN /\ vout' = IF r = "abort" THEN Aborts("kind")
                                  ELSE Yields("kind", <<r>>)
        /\ xpc' = IF r = "abort" THEN "aborted" ELSE "run"
  /\ op' = "ValType_kind"
  /\ UNCHANGED notVal

\* Val val(x)
Val_new(in, g) ==
  /\ xpc = "run"
  /\ vin' = in
  /\ val' = Val_ctor(in, g)
  /\ vout' = NoOut
  /\ op' = "Val_new"
  /\ UNCHANGED xpc
  /\ UNCHANGED notVal

\* what a call of an accessor leaves behind
Observed(o) ==
  /\ xpc = "run"
  /\ val.kind # "none"
  /\ vout' = o
  /\ xpc' = IF o.tag = "abort" THEN "aborted" ELSE "run"
  /\ UNCHANGED <<vin, val>>
  /\ UNCHANGED notVal

GetKind ==
  /\ Observed(IF Val_Kind(val) = "abort" THEN Aborts("Kind")
                                         ELSE Yields("Kind", <<Val_Kind(val)>>))
  /\ op' = "GetKind"
GetI32 == Observed(Val_i32(val)) /\ op' = "GetI32"
GetI64 == Observed(Val_i64(val)) /\ op' = "GetI64"
GetF32 == Observed(Val_f32(val)) /\ op' = "GetF32"
GetF64 == Observed(Val_f64(val)) /\ op' = "GetF64"
GetV128 == Observed(Val_v128(val)) /\ op' = "GetV128"
GetExternRef == Observed(Val_externref(val)) /\ op' = "GetExternRef"
GetFunc == Observed(Val_func(val)) /\ op' = "GetFunc"

ValNext ==
  \/ \E k \in ValKinds : ValType_kind(k)
  \/ \E in \in Inputs, g \in Garbage : Val_new(in, g)
  \/ GetKind
  \/ GetI32
  \/ GetI64
  \/ GetF32
  \/ GetF64
  \/ GetV128
  \/ GetExternRef
  \/ GetFunc

SpecVal == ValInit /\ [][ValNext]_vars

\* C9: for every ValKind k of the seven kinds, ValType(k)->kind() returns k.
C9_ValTypeKindRoundTrip ==
  op = "ValType_kind" => (vout.tag = "value" /\ vout.x = vin.x)

\* the kind and the accessor that match the type of a numeric value
KindOfType ==
  [int32_t |-> "KindI32", int64_t |-> "KindI64", float |-> "KindF32",
   double |-> "KindF64", wasmtime_v128 |-> "KindV128"]
AccessorOfType ==
  [int32_t |-> "i32", int64_t |-> "i64", float |-> "f32", double |-> "f64",
   wasmtime_v128 |-> "v128"]
NumericTypes == {"int32_t", "int64_t", "float", "double", "wasmtime_v128"}
Accessors == {"i32", "i64", "f32", "f64", "v128", "externref", "func"}

\* the words of x that are its value (an int32_t or a float is one word)
ValueWords(in) ==
  IF in.type \in {"int32_t", "float"} THEN <<in.x[1]>> ELSE in.x

\* C10: for a value x of type int32, int64, float, double or v128,
\* Val(x).kind() is the kind of x's type and the accessor of that kind
\* returns x; an accessor of any other kind aborts; a Val built from an
\* empty optional ExternRef (Func) reports KindExternRef (KindFuncRef) and
\* its externref() (funcref()) returns no value.
C10_ValRoundTrip ==
  /\ (vin.type \in NumericTypes /\ vout.acc = "Kind") =>
       (vout.tag = "value" /\ vout.x = <<KindOfType[vin.type]>>)
  /\ (vin.type \in NumericTypes /\ vout.acc \in Accessors) =>
       IF vout.acc = AccessorOfType[vin.type]
       THEN vout.tag = "value" /\ vout.x = ValueWords(vin)
       ELSE vout.tag = "abort" /\ xpc = "aborted"
  /\ (vin.type = "optional<ExternRef>" /\ vin.x = <<>>) =>
       /\ vout.acc = "Kind" => vout.x = <<"KindExternRef">>
       /\ vout.acc = "externref" => vout.tag = "nullopt"
  /\ (vin.type = "optional<Func*>" /\ vin.x = <<>>) =>
       /\ vout.acc = "Kind" => vout.x = <<"KindFuncRef">>
       /\ vout.acc = "func" => vout.tag = "nullopt"

(***************************************************************************)
(* Func, host functions and Trap (specification SpecFunc).                 *)
(* A behaviour follows one object: a Func that is called, or a Trap made   *)
(* of a message.                                                           *)
(***************************************************************************)
MaxArity == 2

notFunc == <<oldVars, wat, lim, ftype, fuel, glob, tab, mem>>

\* the value kinds of the functions called
FKinds == {"WASMTIME_I32", "WASMTIME_F64"}
KindLists == UNION {[1..n -> FKinds] : n \in 0..MaxArity}
\* wasmtime_func_type(cx.ptr, &func): the parameter and the result kinds
FuncTypes == [params : KindLists, results : KindLists]

\* Val(int32_t) / Val(double) of a payload, as the tests pass them
ValOfKind(k, x) ==
  IF k = "WASMTIME_I32"
  THEN Val_from_i32(<<x>>, [w1 |-> 0, w23 |-> 0])
  ELSE Val_from_f64(<<x, 0>>, [w1 |-> 0, w23 |-> 0])

ValsOfKinds(ks) ==
  {[i \in 1..Len(ks) |-> ValOfKind(ks[i], xs[i])] :
     xs \in [1..Len(ks) -> Words]}

\* std::vector<wasmtime_val_t> raw_results(nresults): value-initialized
ZeroVal == [kind |-> "WASMTIME_I32", w0 |-> 0, w1 |-> 0, w23 |-> 0]

\* what running the function does: it traps with a message or it returns
\* one value per result of its type
Bodies(ty) ==
  {[tag |-> "trap", msg |-> m, vals |-> <<>>] : m \in Msgs}
  \cup {[tag |-> "return", msg |-> <<>>, vals |-> v] :
          v \in ValsOfKinds(ty.results)}

\* the text of the engine's error for a wrong number of arguments
ArityMsg(expected, got) == <<"expected", expected, "arguments, got", got>>
TypeMsg == <<"argument type mismatch">>

NoError == [null |-> TRUE, msg |-> <<>>]
NoTrap == [trapnull |-> TRUE, tmsg |-> <<>>]

\* static wasm_trap_t *raw_callback(env, caller, args, nargs, results,
\*                                  nresults):
\*   Result<std::monostate> result = (*func)(Caller(caller), args_span,
\*                                           results_span);
\*   return nullptr;
raw_callback(body, results) ==
  [trap |-> NoTrap,
   results |-> IF body.tag = "return" THEN body.vals ELSE results]

\* the engine runs the function: a function defined in wasm, or the
\* callback given to wasmtime_func_new
Invoke(f, results) ==
  IF f.host THEN raw_callback(f.body, results)
  ELSE IF f.body.tag = "trap"
       THEN [trap |-> [trapnull |-> FALSE, tmsg |-> f.body.msg],
             results |-> results]
       ELSE [trap |-> NoTrap, results |-> f.body.vals]

\* wasmtime_func_call(cx, &func, args, nargs, results, nresults, &trap)
wasmtime_func_call(f, args, nargs, results, nresults) ==
  IF nargs # Len(f.ty.params)
  THEN [error |-> [null |-> FALSE,
                   msg |-> ArityMsg(Len(f.ty.params), nargs)],
        trap |-> NoTrap, results |-> results]
  ELSE IF \E i \in 1..nargs : args[i].kind # f.ty.params[i]
  THEN [error |-> [null |-> FALSE, msg |-> TypeMsg],
        trap |-> NoTrap, results |-> results]
  ELSE IF nresults < Len(f.ty.results)
  THEN [error |-> [null |-> FALSE, msg |-> <<"not enough results">>],
        trap |-> NoTrap, results |-> results]
  ELSE LET out == Invoke(f, results)
       IN [error |-> NoError, trap |-> out.trap, results |-> out.results]

\* Func::call(cx, params)
Func_call_dropping_last(f, params) ==
  LET raw_params == [i \in 1..Len(params) |-> params[i]]
      nresults == Len(f.ty.results)
      raw_results == [i \in 1..nresults |-> ZeroVal]
      e == wasmtime_func_call(f, raw_params, Len(raw_params),
                              raw_results, nresults)
      results == [i \in 1..(IF nresults > 0 THEN nresults - 1 ELSE 0) |->
                    e.results[i]]
  IN [eng |-> e, ret |-> TrapResultOf(e.error, e.trap, Success(results))]
Func_call(f, params) ==
  LET raw_params == [i \in 1..Len(params) |-> params[i]]
      nresults == Len(f.ty.results)
      raw_results == [i \in 1..nresults |-> ZeroVal]
      e == wasmtime_func_call(f, raw_params, Len(raw_params),
                              raw_results, nresults)
      results == [i \in 1..nresults |-> e.results[i]]
  IN [eng |-> e, ret |-> TrapResultOf(e.error, e.trap, Success(results))]

\* wasmtime_trap_new(msg.data(), msg.size()): a trap of that message, with
\* no exit status and an empty trace
wasmtime_trap_new(m) ==
  [trapnull |-> FALSE, tmsg |-> m, exit |-> "none", frames |-> 0]

\* wasm_trap_message(trap, &out): the message followed by a terminating
\* NUL byte, which out.size counts
NUL == "NUL"
wasm_trap_message(tmsg) ==
  [data |-> tmsg \o <<NUL>>, size |-> Len(tmsg) + 1]

\* std::string Trap::message() const
Trap_message(tmsg) ==
  LET msg == wasm_trap_message(tmsg)
  IN std_string(msg.data, msg.size)

\* std::optional<int32_t> Trap::i32_exit() const
Trap_i32_exit(t) ==
  IF t.exit # "none" THEN Yields("i32_exit", t.exit) ELSE Nullopt("i32_exit")

\* Trace Trap::trace() const: the frames the engine recorded
Trap_trace(t) == Yields("trace", t.frames)

\* std::string TrapError::message()
TrapError_message(e) ==
  IF e.alt = "Trap" THEN Yields("message", Trap_message(e.msg))
  ELSE IF e.alt = "Error" THEN Yields("message", Error_message(e))
  ELSE Aborts("message")

ArgLists == UNION {[1..n -> {ValOfKind(k, 1) : k \in FKinds}] :
                     n \in 0..MaxArity}

FuncInit ==
  /\ op = "init"
  /\ OldIdle /\ ObjIdle /\ xpc = "run"

\* a Func an instance exports: Func(wasmtime_func_t func) : func(func) {}
Func_exported(ty, body) ==
  /\ op = "init"
  /\ fcall' = [tag |-> "func", host |-> FALSE, ty |-> ty, body |-> body,
               args |-> <<>>, eng |-> None, ret |-> NoData,
               message |-> NoOut]
  /\ op' = "Func_exported"
  /\ UNCHANGED <<trp, xpc>>
  /\ UNCHANGED notFunc

\* template <typename F> Func(Store::Context cx, const FuncType &ty, F f):
\* the engine is given raw_callback<F> and a copy of f
Func_host(ty, body) ==
  /\ op = "init"
  /\ ty.results = <<>>
  /\ fcall' = [tag |-> "func", host |-> TRUE, ty |-> ty, body |-> body,
               args |-> <<>>, eng |-> None, ret |-> NoData,
               message |-> NoOut]
  /\ op' = "Func_host"
  /\ UNCHANGED <<trp, xpc>>
  /\ UNCHANGED notFunc

\* func.call(store, args)
Call_func(args) ==
  /\ fcall.tag = "func"
  /\ LET c == Func_call(fcall, args)
     IN fcall' = [fcall EXCEPT !.tag = "called", !.args = args,
                               !.eng = c.eng, !.ret = c.ret]
  /\ op' = "Call_func"
  /\ UNCHANGED <<trp, xpc>>
  /\ UNCHANGED notFunc

\* func.call(store, args).err().message()
ErrMessage ==
  /\ fcall.tag = "called"
  /\ ~Result_bool(fcall.ret)
  /\ LET e == Result_err_get(fcall.ret)
     IN fcall' = [fcall EXCEPT !.tag = "read",
                               !.message = TrapError_message(e.val)]
  /\ op' = "ErrMessage"
  /\ UNCHANGED <<trp, xpc>>
  /\ UNCHANGED notFunc

\* Trap t(msg)
Trap_new(m) ==
  /\ op = "init"
  /\ trp' = [tag |-> "trap", made |-> m, ptr |-> wasmtime_trap_new(m),
             message |-> NoOut, exit |-> NoOut, trace |-> NoOut]
  /\ op' = "Trap_new"
  /\ UNCHANGED <<fcall, xpc>>
  /\ UNCHANGED notFunc

\* t.message()
GetMessage ==
  /\ trp.tag = "trap"
  /\ trp' = [trp EXCEPT
               !.message = Yields("message", Trap_message(trp.ptr.tmsg))]
  /\ op' = "GetMessage"
  /\ UNCHANGED <<fcall, xpc>>
  /\ UNCHANGED notFunc

\* t.i32_exit()
GetExit ==
  /\ trp.tag = "trap"
  /\ trp' = [trp EXCEPT !.exit = Trap_i32_exit(trp.ptr)]
  /\ op' = "GetExit"
  /\ UNCHANGED <<fcall, xpc>>
  /\ UNCHANGED notFunc

\* t.trace()
GetTrace ==
  /\ trp.tag = "trap"
  /\ trp' = [trp EXCEPT !.trace = Trap_trace(trp.ptr)]
  /\ op' = "GetTrace"
  /\ UNCHANGED <<fcall, xpc>>
  /\ UNCHANGED notFunc

FuncNext ==
  \/ /\ op = "init"
     /\ \E ty \in FuncTypes : \E body \in Bodies(ty) :
          Func_exported(ty, body)
  \/ /\ op = "init"
     /\ \E ty \in FuncTypes : \E body \in Bodies(ty) : Func_host(ty, body)
  \/ \E args \in ArgLists : Call_func(args)
  \/ ErrMessage
  \/ \E m \in Msgs : Trap_new(m)
  \/ GetMessage
  \/ GetExit
  \/ GetTrace

SpecFunc == FuncInit /\ [][FuncNext]_vars

(***************************************************************************)
(* Properties of Func::call and Trap (specification SpecFunc).             *)
(***************************************************************************)
Called == fcall.tag \in {"called", "read"}

ArgsFit ==
  /\ Len(fcall.args) = Len(fcall.ty.params)
  /\ \A i \in 1..Len(fcall.args) : fcall.args[i].kind = fcall.ty.params[i]

\* C11: Func::call returns a TrapError holding the engine's Error when the
\* engine reports an error (a zero-parameter function called with one
\* argument: "expected 0 arguments, got 1"), a TrapError holding the Trap
\* when the function traps, and otherwise a vector of exactly as many Vals
\* as the type has results, in result order.
C11_FuncCallOutcomes ==
  (Called /\ ~fcall.host) =>
    LET e == fcall.eng
        r == fcall.ret
        n == Len(fcall.ty.results)
    IN /\ ~e.error.null =>
            /\ r.index = 1 /\ r.val.alt = "Error"
            /\ Error_message(r.val) = e.error.msg
       /\ (fcall.ty.params = <<>> /\ Len(fcall.args) = 1) =>
            /\ r.index = 1 /\ r.val.alt = "Error"
            /\ Error_message(r.val) = ArityMsg(0, 1)
       /\ (ArgsFit /\ fcall.body.tag = "trap") =>
            /\ r.index = 1 /\ r.val.alt = "Trap"
            /\ r.val.msg = fcall.body.msg
       /\ (ArgsFit /\ fcall.body.tag = "return") =>
            /\ r.index = 0 /\ r.val.alt = "T"
            /\ Len(r.val.v) = n
            /\ \A i \in 1..n : /\ r.val.v[i] = fcall.body.vals[i]
                               /\ r.val.v[i].kind = fcall.ty.results[i]

\* C11 witness: a call returned two values of different kinds
C11_Witness ==
  /\ op = "Call_func" /\ ~fcall.host
  /\ fcall.ret.index = 0
  /\ Len(fcall.ret.val.v) = 2
  /\ fcall.ret.val.v[1].kind # fcall.ret.val.v[2].kind

\* C12: when the host function wrapped in a Func returns a Trap, calling
\* the Func returns an error result whose message() is the trap's message;
\* when the host function returns success, the call returns success.
C12_HostTrapPropagates ==
  (Called /\ fcall.host /\ ArgsFit) =>
    /\ fcall.body.tag = "trap" =>
         /\ fcall.ret.index = 1
         /\ TrapError_message(fcall.ret.val) =
              Yields("message", fcall.body.msg)
    /\ fcall.body.tag = "return" => fcall.ret.index = 0

\* C13: Trap(msg).message() equals msg (same length, no terminator byte),
\* i32_exit() returns no value and trace() has size 0.
C13_TrapOfMessage ==
  trp.tag = "trap" =>
    /\ trp.message # NoOut => trp.message = Yields("message", trp.made)
    /\ trp.exit # NoOut => trp.exit = Nullopt("i32_exit")
    /\ trp.trace # NoOut => trp.trace = Yields("trace", 0)

(***************************************************************************)
(* wat2wasm (specification SpecWat).                                       *)
(***************************************************************************)
MaxBinLen == 3

notWat == <<oldVars, fcall, trp, lim, ftype, fuel, glob, tab, mem>>

\* the wasm binaries the engine may produce: wasm_byte_vec_t ret
Binaries == UNION {[1..n -> Words] : n \in 0..MaxBinLen}

\* wasmtime_wat2wasm(wat.data(), wat.size(), &ret): an error and ret left
\* as it was (wasm_byte_vec_t ret; has no initializer), or no error and ret
\* filled in
WatOutcomes ==
  {[error |-> [null |-> FALSE, msg |-> m],
    ret |-> [init |-> FALSE, data |-> <<>>, size |-> 0]] : m \in Msgs}
  \cup {[error |-> NoError,
          ret |-> [init |-> TRUE, data |-> b, size |-> Len(b)]] :
          b \in Binaries}

\* std::span<uint8_t> raw(ret.data, ret.size); vec.assign(raw.begin(),
\* raw.end());
vector_assign(data, size) == [i \in 1..size |-> data[i]]

\* Result<std::vector<uint8_t>> wat2wasm(std::string_view wat): the result,
\* how often ret was read and how often it was given to
\* wasm_byte_vec_delete
wat2wasm_deleting_always(e) ==
  IF ~e.error.null
  THEN [result |-> Result_err(Error_ctor(e.error)), reads |-> 0,
        deletes |-> 1]
  ELSE LET vec == vector_assign(e.ret.data, e.ret.size)
       IN [result |-> Result_ok(Success(vec)), reads |-> 1, deletes |-> 1]
wat2wasm(e) ==
  IF ~e.error.null
  THEN [result |-> Result_err(Error_ctor(e.error)), reads |-> 0,
        deletes |-> 0]
  ELSE LET vec == vector_assign(e.ret.data, e.ret.size)
       IN [result |-> Result_ok(Success(vec)), reads |-> 1, deletes |-> 1]

WatInit ==
  /\ op = "init"
  /\ OldIdle /\ ObjIdle /\ xpc = "run"

\* wat2wasm(text)
Wat2wasm(text, e) ==
  /\ wat.tag = "none"
  /\ LET r == wat2wasm(e)
     IN wat' = [tag |-> "returned", text |-> text, eng |-> e,
                result |-> r.result, reads |-> r.reads,
                deletes |-> r.deletes]
  /\ op' = "Wat2wasm"
  /\ UNCHANGED xpc
  /\ UNCHANGED notWat

WatNext ==
  /\ wat.tag = "none"
  /\ \E text \in Msgs : \E e \in WatOutcomes : Wat2wasm(text, e)

SpecWat == WatInit /\ [][WatNext]_vars

\* C14: wat2wasm returns an error if parsing failed, else the wasm binary:
\* on success the vector has the length and the bytes, in order, of the
\* buffer the engine produced and that buffer is released exactly once; on
\* failure no output buffer is read or released.
C14_Wat2wasmCopiesAndReleases ==
  wat.tag = "returned" =>
    IF wat.eng.error.null
    THEN /\ wat.result.index = 0
         /\ Len(wat.result.val.v) = wat.eng.ret.size
         /\ \A i \in 1..wat.eng.ret.size :
              wat.result.val.v[i] = wat.eng.ret.data[i]
         /\ wat.deletes = 1
    ELSE /\ wat.result.index = 1
         /\ wat.result.val.alt = "Error"
         /\ Error_message(wat.result.val) = wat.eng.error.msg
         /\ wat.reads = 0
         /\ wat.deletes = 0

\* C14 witness: a binary of three bytes, not all equal, was returned
C14_Witness ==
  /\ op = "Wat2wasm"
  /\ wat.eng.error.null
  /\ wat.eng.ret.size = 3
  /\ wat.eng.ret.data[1] # wat.eng.ret.data[3]
  /\ wat.result.index = 0

(***************************************************************************)
(* Limits (specification SpecLimits).                                      *)
(***************************************************************************)
MaxLimit == 2

notLimits == <<oldVars, fcall, trp, wat, ftype, fuel, glob, tab, mem>>

\* a uint32_t as its two 16-bit halves
U32Of(hi, lo) == [hi |-> hi, lo |-> lo]

\* wasm_limits_max_default of wasm.h: 0xffffffff
wasm_limits_max_default == U32Of(65535, 65535)

\* the uint32_t arguments tried: the small ones and the two largest
U32 == {U32Of(0, n) : n \in 0..MaxLimit}
       \cup {U32Of(65535, 65534), wasm_limits_max_default}

\* Limits(uint32_t min) : raw({.min = min, .max = wasm_limits_max_default})
Limits_min_only(min) == [min |-> min, max |-> wasm_limits_max_default]
\* Limits(uint32_t min, uint32_t max) : raw({.min = min, .max = max})
Limits_min_max(min, max) == [min |-> min, max |-> max]

\* uint32_t min() const { return raw.min; }
Limits_min(raw_limits) == Yields("min", raw_limits.min)

\* std::optional<uint32_t> max() const
Limits_max_unchecked(raw_limits) == Yields("max", raw_limits.max)
Limits_max(raw_limits) ==
  IF raw_limits.max = wasm_limits_max_default
  THEN Nullopt("max")
  ELSE Yields("max", raw_limits.max)

LimitsInit ==
  /\ op = "init"
  /\ OldIdle /\ ObjIdle /\ xpc = "run"

\* Limits limits(min)
Limits_new1(min) ==
  /\ lim' = [tag |-> "limits", ctor |-> 1, min |-> min, max |-> U32Of(0, 0),
             raw |-> Limits_min_only(min), minOut |-> NoOut,
             maxOut |-> NoOut]
  /\ op' = "Limits_new1"
  /\ UNCHANGED xpc
  /\ UNCHANGED notLimits

\* limits = Limits(min, max)
Limits_new2(min, max) ==
  /\ lim' = [tag |-> "limits", ctor |-> 2, min |-> min, max |-> max,
             raw |-> Limits_min_max(min, max), minOut |-> NoOut,
             maxOut |-> NoOut]
  /\ op' = "Limits_new2"
  /\ UNCHANGED xpc
  /\ UNCHANGED notLimits

\* limits.min()
GetMin ==
  /\ lim.tag = "limits"
  /\ lim' = [lim EXCEPT !.minOut = Limits_min(lim.raw)]
  /\ op' = "GetMin"
  /\ UNCHANGED xpc
  /\ UNCHANGED notLimits

\* limits.max()
GetMax ==
  /\ lim.tag = "limits"
  /\ lim' = [lim EXCEPT !.maxOut = Limits_max(lim.raw)]
  /\ op' = "GetMax"
  /\ UNCHANGED xpc
  /\ UNCHANGED notLimits

LimitsNext ==
  \/ \E min \in U32 : Limits_new1(min)
  \/ \E min \in U32 : \E max \in U32 : Limits_new2(min, max)
  \/ GetMin
  \/ GetMax

SpecLimits == LimitsInit /\ [][LimitsNext]_vars

MaxTypes == 2

notFuncType == <<oldVars, fcall, trp, wat, lim, fuel, glob, tab, mem>>

\* the std::initializer_list<ValType> arguments, by the kinds of their
\* elements
TypeLists == UNION {[1..n -> ValKinds] : n \in 0..MaxTypes}

\* a wasm_valtype_t the engine allocated: what it is, who has it, how often
\* wasm_valtype_delete was called on it
ValTypeCell(type, state) == [type |-> type, state |-> state, dels |-> 0]

\* FuncType(std::initializer_list<ValType> params,
\*          std::initializer_list<ValType> results)
\* The elements of the two lists own the handles 1..n. `for (auto val :
\* params)` copy-constructs val, which owns wasm_valtype_copy of the
\* element's handle, and val.ptr.release() puts that copy in the vector.
FuncType_ctor(params, results) ==
  LET np == Len(params)
      nr == Len(results)
      n == np + nr
      all == params \o results
      originals == [i \in 1..n |->
                      ValTypeCell(wasm_valtype_new(kind_to_c(all[i])),
                                  "owned")]
      copies == [i \in 1..n |-> ValTypeCell(originals[i].type, "engine")]
  IN [heap |-> originals \o copies,
      list |-> [i \in 1..n |-> unique_ptr_get(i).ptr],
      param_vec |-> [i \in 1..np |-> unique_ptr_release(n + i).ret],
      result_vec |-> [i \in 1..nr |-> unique_ptr_release(n + np + i).ret]]

\* ValType::ListRef: size() and the kind() of every Ref from begin() to
\* end()
ListRef(heap, vec) ==
  [size |-> Len(vec),
   kinds |-> [i \in 1..Len(vec) |-> Ref_kind(heap[vec[i]].type)]]

\* the destructors of the elements of the initializer lists
ListDestroyed(heap, list) ==
  [h \in 1..Len(heap) |->
     IF \E i \in 1..Len(list) : h \in unique_ptr_deleted(list[i])
     THEN [heap[h] EXCEPT !.state = "deleted", !.dels = @ + 1]
     ELSE heap[h]]

FuncTypeInit ==
  /\ op = "init"
  /\ OldIdle /\ ObjIdle /\ xpc = "run"

\* FuncType t(params, results): the state before the full-expression ends
FuncType_new(params, results) ==
  /\ ftype.tag = "none"
  /\ LET c == FuncType_ctor(params, results)
     IN ftype' = [tag |-> "built", params |-> params, results |-> results,
                  heap |-> c.heap, list |-> c.list,
                  param_vec |-> c.param_vec, result_vec |-> c.result_vec,
                  listAlive |-> TRUE, acc |-> "none", size |-> 0,
                  kinds |-> <<>>]
  /\ op' = "FuncType_new"
  /\ UNCHANGED xpc
  /\ UNCHANGED notFuncType

\* the end of the full-expression: the initializer lists are destroyed
ListEnd ==
  /\ xpc = "run"
  /\ ftype.tag = "built" /\ ftype.listAlive
  /\ ftype' = [ftype EXCEPT !.heap = ListDestroyed(ftype.heap, ftype.list),
                            !.list = [i \in 1..Len(ftype.list) |-> NULL],
                            !.listAlive = FALSE]
  /\ op' = "ListEnd"
  /\ UNCHANGED xpc
  /\ UNCHANGED notFuncType

ReadList(acc, vec) ==
  /\ xpc = "run"
  /\ ftype.tag = "built"
  /\ LET l == ListRef(ftype.heap, vec)
         aborted == \E i \in 1..l.size : l.kinds[i] = "abort"
     IN /\ ftype' = [ftype EXCEPT !.acc = acc, !.size = l.size,
                                  !.kinds = l.kinds]
        /\ xpc' = IF aborted THEN "aborted" ELSE "run"
  /\ UNCHANGED notFuncType

\* t->params().size(); for (auto ty : t->params()) ty.kind();
GetParams == ReadList("params", ftype.param_vec) /\ op' = "GetParams"
\* t->results().size(); for (auto ty : t->results()) ty.kind();
GetResults == ReadList("results", ftype.result_vec) /\ op' = "GetResults"

FuncTypeNext ==
  \/ /\ ftype.tag = "none"
     /\ \E params \in TypeLists : \E results \in TypeLists :
          FuncType_new(params, results)
  \/ ListEnd
  \/ GetParams
  \/ GetResults

SpecFuncType == FuncTypeInit /\ [][FuncTypeNext]_vars

\* C16: FuncType(params, results)->params() has size |params| and yields
\* the kinds of params in the same order, likewise results(); the lists
\* passed in remain usable; every ValType handle involved is either handed
\* to the engine exactly once or released exactly once by the wrapper.
C16_FuncTypeLists ==
  ftype.tag = "built" =>
    /\ ftype.acc = "params" =>
         /\ ftype.size = Len(ftype.params)
         /\ ftype.kinds = ftype.params
    /\ ftype.acc = "results" =>
         /\ ftype.size = Len(ftype.results)
         /\ ftype.kinds = ftype.results
    /\ ftype.listAlive =>
         \A i \in 1..Len(ftype.list) :
           /\ ftype.list[i] # NULL
           /\ ftype.heap[ftype.list[i]].state = "owned"
           /\ Ref_kind(ftype.heap[ftype.list[i]].type) # "abort" =>
                Ref_kind(ftype.heap[ftype.list[i]].type) =
                  (ftype.params \o ftype.results)[i]
    /\ \A h \in 1..Len(ftype.heap) :
         LET vec == ftype.param_vec \o ftype.result_vec
             uses == Cardinality({i \in 1..Len(vec) : vec[i] = h})
         IN \/ /\ ftype.heap[h].state = "engine"
               /\ uses = 1 /\ ftype.heap[h].dels = 0
            \/ /\ ftype.heap[h].state = "owned" /\ ftype.listAlive
               /\ uses = 0 /\ ftype.heap[h].dels = 0
            \/ /\ ftype.heap[h].state = "deleted"
               /\ uses = 0 /\ ftype.heap[h].dels = 1

(***************************************************************************)
(* Store::Context::add_fuel and fuel_consumed (specification SpecFuel).    *)
(* The counters are the engine's: the store's consumed and remaining fuel. *)
(***************************************************************************)
MaxFuel == 4

notFuel == <<oldVars, fcall, trp, wat, lim, ftype, glob, tab, mem>>

FuelMsg == <<"fuel is not configured in this store">>

\* wasmtime_context_add_fuel(ptr, fuel): an error unless the engine's
\* configuration enabled fuel consumption
wasmtime_context_add_fuel(st, n) ==
  IF st.enabled
  THEN [error |-> NoError, st |-> [st EXCEPT !.remaining = @ + n]]
  ELSE [error |-> [null |-> FALSE, msg |-> FuelMsg], st |-> st]

\* wasmtime_context_fuel_consumed(ptr, &fuel): false, or true and the
\* consumed fuel stored through the pointer
wasmtime_context_fuel_consumed(st, out) ==
  IF st.enabled THEN [ok |-> TRUE, fuel |-> st.consumed]
  ELSE [ok |-> FALSE, fuel |-> out]

\* Result<std::monostate> Context::add_fuel(uint64_t fuel)
Context_add_fuel(st, n) ==
  LET e == wasmtime_context_add_fuel(st, n)
  IN [result |-> ResultOf(e.error, Success("monostate")), st |-> e.st]

\* std::optional<uint64_t> Context::fuel_consumed() const
Context_fuel_consumed_unchecked(st) ==
  LET r == wasmtime_context_fuel_consumed(st, 0)
  IN Yields("fuel_consumed", r.fuel)
Context_fuel_consumed(st) ==
  LET r == wasmtime_context_fuel_consumed(st, 0)
  IN IF r.ok THEN Yields("fuel_consumed", r.fuel)
     ELSE Nullopt("fuel_consumed")

FuelInit ==
  /\ op = "init"
  /\ OldIdle /\ ObjIdle /\ xpc = "run"

\* Config config; config.consume_fuel(enable); Engine engine(config);
\* Store store(engine);
Store_new(enable) ==
  /\ fuel.tag = "none"
  /\ fuel' = [tag |-> "store",
              st |-> [enabled |-> enable, consumed |-> 0, remaining |-> 0],
              arg |-> 0, added |-> NoData, out |-> NoOut]
  /\ op' = "Store_new"
  /\ UNCHANGED xpc
  /\ UNCHANGED notFuel

\* store.context().add_fuel(n)
AddFuel(n) ==
  /\ fuel.tag = "store"
  /\ fuel.st.consumed + fuel.st.remaining + n <= MaxFuel
  /\ LET r == Context_add_fuel(fuel.st, n)
     IN fuel' = [fuel EXCEPT !.st = r.st, !.arg = n, !.added = r.result]
  /\ op' = "AddFuel"
  /\ UNCHANGED xpc
  /\ UNCHANGED notFuel

\* store.context().fuel_consumed()
FuelConsumed ==
  /\ fuel.tag = "store"
  /\ fuel' = [fuel EXCEPT !.out = Context_fuel_consumed(fuel.st)]
  /\ op' = "FuelConsumed"
  /\ UNCHANGED xpc
  /\ UNCHANGED notFuel

\* the engine runs wasm code, which consumes k of the remaining fuel
RunWasm(k) ==
  /\ fuel.tag = "store" /\ fuel.st.enabled
  /\ k <= fuel.st.remaining
  /\ fuel' = [fuel EXCEPT !.st.consumed = @ + k, !.st.remaining = @ - k]
  /\ op' = "RunWasm"
  /\ UNCHANGED xpc
  /\ UNCHANGED notFuel

FuelNext ==
  \/ \E enable \in BOOLEAN : Store_new(enable)
  \/ \E n \in 0..MaxFuel : AddFuel(n)
  \/ FuelConsumed
  \/ \E k \in 1..MaxFuel : RunWasm(k)

SpecFuel == FuelInit /\ [][FuelNext]_vars

\* C17: without fuel consumption enabled, fuel_consumed() returns no value
\* and add_fuel(n) returns an error for every n; with it enabled,
\* fuel_consumed() returns exactly the engine's consumed-fuel counter and
\* add_fuel(n) succeeds; the wrapper keeps no fuel state of its own.
C17_FuelFollowsEngine ==
  fuel.tag = "store" =>
    /\ op = "FuelConsumed" =>
         fuel.out = IF fuel.st.enabled
                    THEN Yields("fuel_consumed", fuel.st.consumed)
                    ELSE Nullopt("fuel_consumed")
    /\ op = "AddFuel" =>
         IF fuel.st.enabled
         THEN fuel.added = Result_ok(Success("monostate"))
         ELSE /\ fuel.added.index = 1
              /\ fuel.added.val.alt = "Error"
              /\ fuel.st.remaining = 0
    /\ (~fuel.st.enabled) => (fuel.st.consumed = 0 /\ fuel.st.remaining = 0)

\* C17 witness: fuel was added, some of it was consumed by running code,
\* and fuel_consumed() was called
C17_Witness ==
  /\ op = "FuelConsumed"
  /\ fuel.st.enabled
  /\ fuel.st.consumed = 2
  /\ fuel.st.remaining = 1
  /\ fuel.out = Yields("fuel_consumed", 2)

(***************************************************************************)
(* Global (specification SpecGlobal). The cell of the global is the        *)
(* engine's; the wrapper holds the wasmtime_global_t that names it.        *)
(***************************************************************************)
notGlobal == <<oldVars, fcall, trp, wat, lim, ftype, fuel, tab, mem>>

\* the Vals given to create and set: Val(int32_t) and Val(double)
CellVals == {ValOfKind(k, x) : k \in FKinds, x \in Words}

\* GlobalType(ValType ty, bool mut)
GlobalType_ctor(kind, mut) ==
  [content |-> wasm_valtype_new(kind_to_c(kind)), mutable |-> mut]
GlobalTypes == {GlobalType_ctor(k, mut) : k \in {"KindI32", "KindF64"},
                                          mut \in BOOLEAN}

\* whether the engine accepts the value for a cell of the type
ValHasType(v, type) ==
  \/ v.kind = "WASMTIME_I32" /\ wasm_valtype_kind(type) = "WASM_I32"
  \/ v.kind = "WASMTIME_F64" /\ wasm_valtype_kind(type) = "WASM_F64"
  \/ v.kind = "WASMTIME_FUNCREF" /\ wasm_valtype_kind(type) = "WASM_FUNCREF"

KindMsg == <<"value does not match the type">>
MutMsg == <<"immutable global cannot be set">>

\* wasmtime_global_new(cx.ptr, ty.ptr.get(), &init.val, &global)
wasmtime_global_new(ty, init) ==
  IF ValHasType(init, ty.content)
  THEN [error |-> NoError, cell |-> [ty |-> ty, value |-> init]]
  ELSE [error |-> [null |-> FALSE, msg |-> KindMsg],
        cell |-> [ty |-> ty, value |-> ZeroVal]]

\* wasmtime_global_get(cx.ptr, &global, &val.val)
wasmtime_global_get(cell) == cell.value

\* wasmtime_global_set(cx.ptr, &global, &val.val)
wasmtime_global_set(cell, v) ==
  IF ~cell.ty.mutable
  THEN [error |-> [null |-> FALSE, msg |-> MutMsg], cell |-> cell]
  ELSE IF ~ValHasType(v, cell.ty.content)
  THEN [error |-> [null |-> FALSE, msg |-> KindMsg], cell |-> cell]
  ELSE [error |-> NoError, cell |-> [cell EXCEPT !.value = v]]

\* static Result<Global> Global::create(cx, ty, init)
Global_create(ty, init) ==
  LET e == wasmtime_global_new(ty, init)
  IN [result |-> ResultOf(e.error, Success("Global")), cell |-> e.cell]

\* Val Global::get(cx) const: Val val; wasmtime_global_get(.., &val.val);
\* return val;
Global_get_default(cell) == ZeroVal
Global_get(cell) == wasmtime_global_get(cell)

\* Result<std::monostate> Global::set(cx, val) const
Global_set(cell, v) ==
  LET e == wasmtime_global_set(cell, v)
  IN [result |-> ResultOf(e.error, Success("monostate")), cell |-> e.cell]

GlobalInit ==
  /\ op = "init"
  /\ OldIdle /\ ObjIdle /\ xpc = "run"

\* Global::create(store, ty, init); lastSet is the value of the last
\* set (or create) that returned success
CreateGlobal(ty, init) ==
  /\ glob.tag = "none"
  /\ LET c == Global_create(ty, init)
     IN glob' = [tag |-> IF Result_bool(c.result) THEN "global"
                         ELSE "failed",
                 ty |-> ty, cell |-> c.cell, arg |-> init,
                 res |-> c.result, got |-> ZeroVal, lastSet |-> init]
  /\ op' = "CreateGlobal"
  /\ UNCHANGED xpc
  /\ UNCHANGED notGlobal

\* g.set(store, v)
SetGlobal(v) ==
  /\ glob.tag = "global"
  /\ LET r == Global_set(glob.cell, v)
     IN glob' = [glob EXCEPT !.cell = r.cell, !.arg = v, !.res = r.result,
                             !.lastSet = IF Result_bool(r.result)
                                         THEN v ELSE @]
  /\ op' = "SetGlobal"
  /\ UNCHANGED xpc
  /\ UNCHANGED notGlobal

\* g.get(store)
GetGlobal ==
  /\ glob.tag = "global"
  /\ glob' = [glob EXCEPT !.got = Global_get(glob.cell)]
  /\ op' = "GetGlobal"
  /\ UNCHANGED xpc
  /\ UNCHANGED notGlobal

GlobalNext ==
  \/ \E ty \in GlobalTypes : \E init \in CellVals : CreateGlobal(ty, init)
  \/ \E v \in CellVals : SetGlobal(v)
  \/ GetGlobal

SpecGlobal == GlobalInit /\ [][GlobalNext]_vars

MutableI32 ==
  /\ glob.tag # "none"
  /\ glob.ty = GlobalType_ctor("KindI32", TRUE)

\* C18: for a mutable Global of content type i32: after set(cx, v)
\* succeeds, get(cx) returns v until the next successful set; set with a
\* Val of a different kind returns an error and leaves the value returned
\* by get unchanged; Global::create with an initial Val whose kind differs
\* from the content kind returns an error.
C18_GlobalSetGet ==
  MutableI32 =>
    /\ op = "GetGlobal" => glob.got = glob.lastSet
    /\ op = "SetGlobal" =>
         IF Val_Kind(glob.arg) = "KindI32"
         THEN /\ Result_bool(glob.res)
              /\ Global_get(glob.cell) = glob.arg
         ELSE /\ ~Result_bool(glob.res)
              /\ glob.res.val.alt = "Error"
              /\ Global_get(glob.cell) = glob.lastSet
    /\ op = "CreateGlobal" =>
         (Val_Kind(glob.arg) # "KindI32" =>
            (~Result_bool(glob.res) /\ glob.res.val.alt = "Error"))

\* C18 witness: a set of a double was refused and get returns the i32 value
\* the global was last given
C18_Witness ==
  /\ MutableI32
  /\ op = "GetGlobal"
  /\ ~Result_bool(glob.res)
  /\ Val_Kind(glob.arg) = "KindF64"
  /\ glob.got = ValOfKind("WASMTIME_I32", 1)
  /\ glob.got = glob.lastSet

(***************************************************************************)
(* Table (specification SpecTable). The elements are the engine's; the     *)
(* wrapper holds the wasmtime_table_t that names them.                     *)
(***************************************************************************)
MaxTable == 3

notTable == <<oldVars, fcall, trp, wat, lim, ftype, fuel, glob, mem>>

\* the limits of a table or memory type as the engine reads them
EngLimits == [min : 0..MaxTable, hasMax : {FALSE}, max : {0}]
             \cup {l \in [min : 0..MaxTable, hasMax : {TRUE},
                          max : 0..MaxTable] : l.min <= l.max}

\* TableType(ValType ty, Limits limits)
TableType_ctor(kind, limits) ==
  [element |-> wasm_valtype_new(kind_to_c(kind)), limits |-> limits]
TableTypes == {TableType_ctor(k, l) : k \in {"KindFuncRef", "KindI32"},
                                      l \in EngLimits}

\* Val(std::optional<Func *>()) with the rest of the union zero, the Val
\* of a Func and Val(int32_t)
ElemVals == {Val_from_optional_func(<<>>, [w1 |-> 0, w23 |-> 0]),
             Val_from_optional_func(<<1, 0, 0>>, [w1 |-> 0, w23 |-> 0]),
             ValOfKind("WASMTIME_I32", 1)}

GrowMsg == <<"failed to grow">>
BoundsMsg == <<"index out of bounds">>

Repeat(v, n) == [i \in 1..n |-> v]

\* wasmtime_table_new(cx.ptr, ty.ptr.get(), &init.val, &table): the
\* elements of a table are references
wasmtime_table_new(ty, init) ==
  IF /\ wasm_valtype_kind(ty.element) \in {"WASM_FUNCREF", "WASM_ANYREF"}
     /\ ValHasType(init, ty.element)
  THEN [error |-> NoError,
        table |-> [ty |-> ty, elems |-> Repeat(init, ty.limits.min)]]
  ELSE [error |-> [null |-> FALSE, msg |-> KindMsg],
        table |-> [ty |-> ty, elems |-> <<>>]]

\* wasmtime_table_size(cx.ptr, &table)
wasmtime_table_size(t) == Len(t.elems)

\* wasmtime_table_get(cx.ptr, &table, idx, &val.val)
wasmtime_table_get(t, idx, out) ==
  IF idx < Len(t.elems) THEN [ok |-> TRUE, val |-> t.elems[idx + 1]]
  ELSE [ok |-> FALSE, val |-> out]

\* wasmtime_table_set(cx.ptr, &table, idx, &val.val)
wasmtime_table_set(t, idx, v) ==
  IF ~ValHasType(v, t.ty.element)
  THEN [error |-> [null |-> FALSE, msg |-> KindMsg], table |-> t]
  ELSE IF idx >= Len(t.elems)
  THEN [error |-> [null |-> FALSE, msg |-> BoundsMsg], table |-> t]
  ELSE [error |-> NoError, table |-> [t EXCEPT !.elems[idx + 1] = v]]

\* wasmtime_table_grow(cx.ptr, &table, delta, &init.val, &prev)
wasmtime_table_grow(t, delta, init, prev) ==
  IF ~ValHasType(init, t.ty.element)
  THEN [error |-> [null |-> FALSE, msg |-> KindMsg], table |-> t,
        prev |-> prev]
  ELSE IF t.ty.limits.hasMax /\ Len(t.elems) + delta > t.ty.limits.max
  THEN [error |-> [null |-> FALSE, msg |-> GrowMsg], table |-> t,
        prev |-> prev]
  ELSE [error |-> NoError,
        table |-> [t EXCEPT !.elems = @ \o Repeat(init, delta)],
        prev |-> Len(t.elems)]

\* static Result<Table> Table::create(cx, ty, init)
Table_create(ty, init) ==
  LET e == wasmtime_table_new(ty, init)
  IN [result |-> ResultOf(e.error, Success("Table")), table |-> e.table]

\* size_t Table::size(cx) const
Table_size(t) == wasmtime_table_size(t)

\* std::optional<Val> Table::get(cx, idx) const
Table_get_unchecked(t, idx) ==
  Yields("get", wasmtime_table_get(t, idx, ZeroVal).val)
Table_get(t, idx) ==
  LET r == wasmtime_table_get(t, idx, ZeroVal)
  IN IF r.ok THEN Yields("get", r.val) ELSE Nullopt("get")

\* Result<std::monostate> Table::set(cx, idx, val) const
Table_set(t, idx, v) ==
  LET e == wasmtime_table_set(t, idx, v)
  IN [result |-> ResultOf(e.error, Success("monostate")), table |-> e.table]

\* Result<uint32_t> Table::grow(cx, delta, init) const
Table_grow(t, delta, init) ==
  LET e == wasmtime_table_grow(t, delta, init, 0)
  IN [result |-> ResultOf(e.error, Success(e.prev)), table |-> e.table]

TableInit ==
  /\ op = "init"
  /\ OldIdle /\ ObjIdle /\ xpc = "run"

\* the state after an operation on the table: the engine's table, the
\* arguments and the result of the operation, the size at its start
TabAfter(t, idx, delta, v, res, got, sizeOut) ==
  [tag |-> "table", t |-> t, idx |-> idx, delta |-> delta, v |-> v,
   res |-> res, got |-> got, sizeOut |-> sizeOut,
   before |-> IF tab.tag = "none" THEN 0 ELSE Len(tab.t.elems)]

\* Table::create(store, ty, init)
CreateTable(ty, init) ==
  /\ tab.tag = "none"
  /\ LET c == Table_create(ty, init)
     IN tab' = [TabAfter(c.table, 0, 0, init, c.result, NoOut, 0)
                  EXCEPT !.tag = IF Result_bool(c.result) THEN "table"
                                 ELSE "failed"]
  /\ op' = "CreateTable"
  /\ UNCHANGED xpc
  /\ UNCHANGED notTable

\* t.size(store)
SizeTable ==
  /\ tab.tag = "table"
  /\ tab' = TabAfter(tab.t, 0, 0, ZeroVal, NoData, NoOut, Table_size(tab.t))
  /\ op' = "SizeTable"
  /\ UNCHANGED xpc
  /\ UNCHANGED notTable

\* t.get(store, idx)
GetTable(idx) ==
  /\ tab.tag = "table"
  /\ tab' = TabAfter(tab.t, idx, 0, ZeroVal, NoData, Table_get(tab.t, idx),
                     0)
  /\ op' = "GetTable"
  /\ UNCHANGED xpc
  /\ UNCHANGED notTable

\* t.set(store, idx, v)
SetTable(idx, v) ==
  /\ tab.tag = "table"
  /\ LET r == Table_set(tab.t, idx, v)
     IN tab' = TabAfter(r.table, idx, 0, v, r.result, NoOut, 0)
  /\ op' = "SetTable"
  /\ UNCHANGED xpc
  /\ UNCHANGED notTable

\* t.grow(store, delta, init)
GrowTable(delta, init) ==
  /\ tab.tag = "table"
  /\ tab.t.ty.limits.hasMax \/ Len(tab.t.elems) + delta <= MaxTable
  /\ LET r == Table_grow(tab.t, delta, init)
     IN tab' = TabAfter(r.table, 0, delta, init, r.result, NoOut, 0)
  /\ op' = "GrowTable"
  /\ UNCHANGED xpc
  /\ UNCHANGED notTable

TableNext ==
  \/ /\ tab.tag = "none"
     /\ \E ty \in TableTypes : \E init \in ElemVals : CreateTable(ty, init)
  \/ SizeTable
  \/ \E idx \in 0..MaxTable : GetTable(idx)
  \/ \E idx \in 0..MaxTable : \E v \in ElemVals : SetTable(idx, v)
  \/ \E delta \in 0..MaxTable : \E init \in ElemVals : GrowTable(delta, init)

SpecTable == TableInit /\ [][TableNext]_vars

\* C19: get(cx, idx) returns a value exactly when idx < size(cx); a
\* successful grow(cx, delta, init) returns the size before the growth and
\* afterwards size(cx) equals that size plus delta; set with a Val whose
\* kind differs from the element type returns an error and leaves the size
\* unchanged.
C19_TableSizeGetGrow ==
  tab.tag = "table" =>
    /\ op = "GetTable" =>
         (tab.got.tag = "value" <=> tab.idx < Table_size(tab.t))
    /\ op = "GetTable" => tab.got.tag \in {"value", "nullopt"}
    /\ (op = "GrowTable" /\ Result_bool(tab.res)) =>
         /\ tab.res.val.v = tab.before
         /\ Table_size(tab.t) = tab.before + tab.delta
    /\ (op = "SetTable" /\ Val_Kind(tab.v) # Ref_kind(tab.t.ty.element)) =>
         /\ ~Result_bool(tab.res)
         /\ tab.res.val.alt = "Error"
         /\ Table_size(tab.t) = tab.before
    /\ op = "SizeTable" => tab.sizeOut = Len(tab.t.elems)

\* C19 witness: a table of one element was grown by two, which returned 1
C19_Witness ==
  /\ tab.tag = "table"
  /\ op = "GrowTable"
  /\ Result_bool(tab.res)
  /\ tab.res.val.v = 1
  /\ tab.delta = 2
  /\ Table_size(tab.t) = 3

(***************************************************************************)
(* Memory (specification SpecMemory). The pages are the engine's; the      *)
(* wrapper holds the wasmtime_memory_t that names them.                    *)
(***************************************************************************)
MaxPages == 3

notMemory == <<oldVars, fcall, trp, wat, lim, ftype, fuel, glob, tab>>

\* the bytes of a page of linear memory
WasmPageSize == 65536

\* MemoryType(Limits limits), as the engine reads the limits
MemoryTypes == [min : 0..MaxPages, hasMax : {FALSE}, max : {0}]
               \cup {l \in [min : 0..MaxPages, hasMax : {TRUE},
                            max : 0..MaxPages] : l.min <= l.max}

\* wasmtime_memory_new(cx.ptr, ty.ptr.get(), &memory)
wasmtime_memory_new(ty) ==
  [error |-> NoError, memory |-> [ty |-> ty, pages |-> ty.min]]

\* wasmtime_memory_size(cx.ptr, &memory)
wasmtime_memory_size(m) == m.pages

\* wasmtime_memory_data_size(cx.ptr, &memory)
wasmtime_memory_data_size(m) == m.pages * WasmPageSize

\* wasmtime_memory_grow(cx.ptr, &memory, delta, &prev)
wasmtime_memory_grow(m, delta, prev) ==
  IF m.ty.hasMax /\ m.pages + delta > m.ty.max
  THEN [error |-> [null |-> FALSE, msg |-> GrowMsg], memory |-> m,
        prev |-> prev]
  ELSE [error |-> NoError, memory |-> [m EXCEPT !.pages = @ + delta],
        prev |-> m.pages]

\* static Result<Memory> Memory::create(cx, ty)
Memory_create(ty) ==
  LET e == wasmtime_memory_new(ty)
  IN [result |-> ResultOf(e.error, Success("Memory")), memory |-> e.memory]

\* uint32_t Memory::size(cx) const
Memory_size(m) == wasmtime_memory_size(m)

\* std::span<uint8_t> Memory::data(cx) const: the size of the span
Memory_data(m) == [size |-> wasmtime_memory_data_size(m)]

\* Result<uint32_t> Memory::grow(cx, delta) const
Memory_grow_returning_size(m, delta) ==
  LET e == wasmtime_memory_grow(m, delta, 0)
  IN [result |-> ResultOf(e.error, Success(e.memory.pages)),
      memory |-> e.memory]
Memory_grow(m, delta) ==
  LET e == wasmtime_memory_grow(m, delta, 0)
  IN [result |-> ResultOf(e.error, Success(e.prev)), memory |-> e.memory]

MemoryInit ==
  /\ op = "init"
  /\ OldIdle /\ ObjIdle /\ xpc = "run"

\* the state after an operation on the memory: the engine's memory, the
\* argument and the result of the operation, the pages at its start
MemAfter(m, delta, res, sizeOut, dataSize) ==
  [tag |-> "memory", m |-> m, delta |-> delta, res |-> res,
   sizeOut |-> sizeOut, dataSize |-> dataSize,
   before |-> IF mem.tag = "none" THEN 0 ELSE mem.m.pages]

\* Memory::create(store, ty)
CreateMemory(ty) ==
  /\ mem.tag = "none"
  /\ LET c == Memory_create(ty)
     IN mem' = [MemAfter(c.memory, 0, c.result, 0, 0)
                  EXCEPT !.tag = IF Result_bool(c.result) THEN "memory"
                                 ELSE "failed"]
  /\ op' = "CreateMemory"
  /\ UNCHANGED xpc
  /\ UNCHANGED notMemory

\* m.size(store); m.data(store).size()
SizeMemory ==
  /\ mem.tag = "memory"
  /\ mem' = MemAfter(mem.m, 0, NoData, Memory_size(mem.m),
                     Memory_data(mem.m).size)
  /\ op' = "SizeMemory"
  /\ UNCHANGED xpc
  /\ UNCHANGED notMemory

\* m.grow(store, delta)
GrowMemory(delta) ==
  /\ mem.tag = "memory"
  /\ mem.m.ty.hasMax \/ mem.m.pages + delta <= MaxPages
  /\ LET r == Memory_grow(mem.m, delta)
     IN mem' = MemAfter(r.memory, delta, r.result, 0, 0)
  /\ op' = "GrowMemory"
  /\ UNCHANGED xpc
  /\ UNCHANGED notMemory

MemoryNext ==
  \/ \E ty \in MemoryTypes : CreateMemory(ty)
  \/ SizeMemory
  \/ \E delta \in 0..MaxPages : GrowMemory(delta)

SpecMemory == MemoryInit /\ [][MemoryNext]_vars

\* C20: a successful grow(cx, delta) returns the page count before the
\* growth and afterwards size(cx) equals that count plus delta and
\* data(cx).size() equals size(cx) * 65536; grow past the type's maximum
\* returns an error and leaves size(cx) unchanged; grow(cx, 0) always
\* succeeds.
C20_MemoryGrow ==
  mem.tag = "memory" =>
    /\ (op = "GrowMemory" /\ Result_bool(mem.res)) =>
         /\ mem.res.val.v = mem.before
         /\ Memory_size(mem.m) = mem.before + mem.delta
         /\ Memory_data(mem.m).size = Memory_size(mem.m) * 65536
    /\ (op = "GrowMemory" /\ mem.m.ty.hasMax
          /\ mem.before + mem.delta > mem.m.ty.max) =>
         /\ ~Result_bool(mem.res)
         /\ mem.res.val.alt = "Error"
         /\ Memory_size(mem.m) = mem.before
    /\ (op = "GrowMemory" /\ mem.delta = 0) => Result_bool(mem.res)
    /\ op = "SizeMemory" =>
         /\ mem.sizeOut = mem.m.pages
         /\ mem.dataSize = mem.sizeOut * 65536

\* C20 witness: a memory of one page was grown by two, which returned 1
C20_Witness ==
  /\ mem.tag = "memory"
  /\ op = "GrowMemory"
  /\ Result_bool(mem.res)
  /\ mem.res.val.v = 1
  /\ mem.delta = 2
  /\ Memory_size(mem.m) = 3
====
